---- MODULE Spec2Model ----
(***************************************************************************)
(* Model of the balance checker's portfolio aggregator                     *)
(* (PortfolioServiceImpl) together with the price cache it reads           *)
(* (tokenPriceServiceImpl) and the client provider it asks for gateways.   *)
(*                                                                         *)
(* float64 amounts of USD are represented exactly, as integers counting    *)
(* hundredths: the price strings and token decimals of the model are       *)
(* chosen so that every product and sum the code forms is representable,   *)
(* hence no rounding takes place.                                          *)
(***************************************************************************)
EXTENDS Integers, Sequences, FiniteSets, TLC

\* ------------------------------------------------------------------ bounds
\* number of wallet lines the WalletSource yields
NumWallets == 2
\* largest value of performance.max_concurrent_routines tried (0 is tried too)
MaxRoutinesCfg == 2
\* number of aggregation calls made on one service instance
MaxCalls == 1
\* tokens per price-feed request (cfg.TokenPriceSvc.MaxTokensPerBatchRequest)
MaxTokensPerBatchRequest == 1
\* longest token list handed to the batching on its own
MaxListLen == 3
\* largest batch size configured for the batching on its own
MaxBatchSizeCfg == 3
\* runs of LoadAndCacheTokenPrices
MaxRefreshes == 2
\* pairs in one list handed to selectBestPriceFromPairs
MaxPairs == 2
\* lifetime of a cached price, in clock ticks
TTLTicks == 2

\* ------------------------------------------------------- program constants
\* native decimals used when a network definition does not state them
DefaultNativeDecimals == 18
\* concurrencyLimit when the configuration gives none
DefaultConcurrencyLimit == 5
\* batchSize when the configuration gives none
DefaultBatchSize == 30

\* a nil *big.Int (balances themselves are never negative)
Nil == 0 - 1
\* a nil error
NoError == "no_error"
\* the outcome of a balance sub-request that failed (not a balance)
ItemFailed == 0 - 2
ZeroAddress == "0x0000000000000000000000000000000000000000"

\* ------------------------------------------------------------ strings
\* strings.ToLower on the strings that occur in the model
ToLower(s) ==
    CASE s = "ETH" -> "eth"
      [] s = "WETH" -> "weth"
      [] s = "Ethereum" -> "ethereum"
      [] s = "ETHEREUM" -> "ethereum"
      [] s = "BASE" -> "base"
      [] s = "Base Mainnet" -> "base mainnet"
      [] s = "USDC" -> "usdc"
      [] s = "USDT" -> "usdt"
      [] s = "DAI" -> "dai"
      [] s = "WBTC" -> "wbtc"
      [] s = "Ethereum Mainnet" -> "ethereum mainnet"
      [] s = "0xC02a" -> "0xc02a"
      [] s = "0xbb4C" -> "0xbb4c"
      [] s = "MATIC" -> "matic"
      [] s = "0xW1" -> "0xw1"
      [] s = "0xW2" -> "0xw2"
      [] s = "0xW3" -> "0xw3"
      [] OTHER -> s

EqualFold(a, b) == ToLower(a) = ToLower(b)

\* strconv.FormatUint(chainID, 10) on the chain ids of the catalog
FormatUint(n) ==
    CASE n = 1 -> "1"
      [] n = 56 -> "56"
      [] n = 8453 -> "8453"
      [] OTHER -> "?"

RECURSIVE Pow10(_)
Pow10(n) == IF n = 0 THEN 1 ELSE 10 * Pow10(n - 1)

RECURSIVE SumSeq(_)
SumSeq(s) == IF s = <<>> THEN 0 ELSE Head(s) + SumSeq(Tail(s))

RECURSIVE SeqOfSet(_)
SeqOfSet(S) ==
    IF S = {} THEN <<>>
    ELSE LET x == CHOOSE y \in S : TRUE IN <<x>> \o SeqOfSet(S \ {x})

Range(s) == {s[k] : k \in 1..Len(s)}

\* ------------------------------------------------------------ catalogs
\* WalletSource: the wallet lines of data/wallets.txt, in file order
AllWalletLines == <<[Address |-> "0xW1"], [Address |-> "0xW2"], [Address |-> "0xW3"]>>

GetWallets == SubSeq(AllWalletLines, 1, NumWallets)

\* NetworkCatalog: Ethereum prices its native coin through WETH, which is a
\* tracked token too; Base has the same native symbol and no tracked token.
\* Addresses are shortened and the 18 decimals are scaled to 1.
Ethereum ==
    [ChainID |-> 1, Name |-> "Ethereum Mainnet", Identifier |-> "ethereum",
     NativeSymbol |-> "ETH", Decimals |-> 1, DEXScreenerChainID |-> "ethereum",
     WrappedNativeTokenAddress |-> "0xC02a"]

Base ==
    [ChainID |-> 8453, Name |-> "Base Mainnet", Identifier |-> "base",
     NativeSymbol |-> "ETH", Decimals |-> 1, DEXScreenerChainID |-> "base",
     WrappedNativeTokenAddress |-> "0x4200"]

GetAllNetworkDefinitions == <<Ethereum, Base>>

\* TokenCatalog: tokens by chain id string.  The second Ethereum entry carries
\* a foreign chain id, as a provider that does not validate would yield it.
TokenWETH == [ChainID |-> 1, Address |-> "0xC02a", Symbol |-> "WETH", Decimals |-> 1]
TokenStray == [ChainID |-> 56, Address |-> "0xbb4C", Symbol |-> "WBNB", Decimals |-> 1]

GetTokensByNetwork(activeNetworkDefs) ==
    [c \in {FormatUint(nd.ChainID) : nd \in Range(activeNetworkDefs)} |->
        IF c = "1" THEN <<TokenWETH, TokenStray>> ELSE <<>>]

\* selector lists a caller passes as trackedNetworkNames
SelectorLists ==
    {<<>>, <<"Ethereum">>, <<"BASE", "ethereum">>, <<"polygon">>,
     <<"base", "polygon">>, <<"all">>, <<"8453">>, <<"Base Mainnet">>}

\* ------------------------------------------------------------ numbers
\* digits of r, most significant first, zero-padded to d places
RECURSIVE FracDigits(_, _)
FracDigits(r, d) ==
    IF d = 0 THEN <<>>
    ELSE <<r \div Pow10(d - 1)>> \o FracDigits(r % Pow10(d - 1), d - 1)

\* strings.TrimRight(s, "0") on a digit sequence
RECURSIVE TrimZeros(_)
TrimZeros(ds) ==
    IF ds # <<>> /\ ds[Len(ds)] = 0 THEN TrimZeros(SubSeq(ds, 1, Len(ds) - 1)) ELSE ds

\* utils.FormatBigInt: a decimal string is the pair of its integer part and
\* the digits after the point (none: no point is printed)
FormatBigInt(amount, decimals) ==
    IF amount = Nil THEN [str |-> [int |-> 0, frac |-> <<0>>], err |-> FALSE]
    ELSE IF decimals = 0 THEN [str |-> [int |-> amount, frac |-> <<>>], err |-> FALSE]
    ELSE [str |-> [int |-> amount \div Pow10(decimals),
                   frac |-> TrimZeros(FracDigits(amount % Pow10(decimals), decimals))],
          err |-> FALSE]

\* a valuation that converts the amount with integer division
CalculateValueUSDTruncating(amount, decimals, priceUSD) ==
    IF amount = Nil THEN [val |-> 0, err |-> TRUE]
    ELSE [val |-> (amount \div Pow10(decimals)) * priceUSD, err |-> FALSE]

\* utils.CalculateValueUSD: (amount / 10^decimals) * priceUSD
CalculateValueUSD(amount, decimals, priceUSD) ==
    IF amount = Nil THEN [val |-> 0, err |-> TRUE]
    ELSE IF priceUSD = 0 \/ amount = 0 THEN [val |-> 0, err |-> FALSE]
    ELSE [val |-> (amount * priceUSD) \div Pow10(decimals), err |-> FALSE]

\* price strings the price feed returns for a pair
PriceStrings == {"2.5", "4", "0", "abc"}

\* strconv.ParseFloat(s, 64), in hundredths
ParseFloat(s) ==
    CASE s = "2.5" -> [val |-> 250, err |-> FALSE]
      [] s = "4" -> [val |-> 400, err |-> FALSE]
      [] s = "0" -> [val |-> 0, err |-> FALSE]
      [] s = "0.0" -> [val |-> 0, err |-> FALSE]
      [] s = "-1" -> [val |-> 0 - 100, err |-> FALSE]
      [] OTHER -> [val |-> 0, err |-> TRUE]

\* the chain's state: the raw balance of a wallet's native coin (token
\* address "") or token on a chain
BalanceOnChain(wallet, chainID, tokenAddress) ==
    CASE wallet = "0xW1" /\ chainID = 1 /\ tokenAddress = "" -> 3
      [] wallet = "0xW1" /\ chainID = 1 /\ tokenAddress = "0xC02a" -> 5
      [] wallet = "0xW2" /\ chainID = 1 /\ tokenAddress = "" -> 3
      [] wallet = "0xW2" /\ chainID = 8453 /\ tokenAddress = "" -> 2
      [] wallet = "0xW3" /\ chainID = 8453 /\ tokenAddress = "" -> 1
      [] OTHER -> 0

\* ------------------------------------------------------------ price service
\* GetPriceUSD on a cache cp: map of price-feed chain to map of address to price
GetPriceUSD(cp, dexScreenerChainID, tokenAddress) ==
    IF dexScreenerChainID \in DOMAIN cp
    THEN IF ToLower(tokenAddress) \in DOMAIN cp[dexScreenerChainID]
         THEN [price |-> cp[dexScreenerChainID][ToLower(tokenAddress)], found |-> TRUE]
         ELSE [price |-> 0, found |-> FALSE]
    ELSE [price |-> 0, found |-> FALSE]

\* GetGlobalNativeTokenPrice on the symbol-keyed slot gp
GetGlobalNativeTokenPrice(gp, nativeSymbolLower) ==
    IF nativeSymbolLower \in DOMAIN gp
    THEN [price |-> gp[nativeSymbolLower], found |-> TRUE]
    ELSE [price |-> 0, found |-> FALSE]

\* a setter that stores whatever price it is given
SetGlobalNativeTokenPriceUnchecked(gp, nativeSymbolLower, price) ==
    [k \in DOMAIN gp \cup {nativeSymbolLower} |->
        IF k = nativeSymbolLower THEN price ELSE gp[k]]

\* TrySetGlobalNativeTokenPrice: the slot after the call
TrySetGlobalNativeTokenPrice(gp, nativeSymbolLower, price) ==
    IF price <= 0 THEN gp
    ELSE [k \in DOMAIN gp \cup {nativeSymbolLower} |->
            IF k = nativeSymbolLower THEN price ELSE gp[k]]

\* a start that replaces the map of every chain by an empty one
InitChainMapsResetting(cp) ==
    LET ids == {nd.DEXScreenerChainID : nd \in Range(GetAllNetworkDefinitions)} \ {""}
    IN [c \in DOMAIN cp \cup ids |-> IF c \in ids THEN << >> ELSE cp[c]]

\* the map entries LoadAndCacheTokenPrices creates before it fetches
InitChainMaps(cp) ==
    LET ids == {nd.DEXScreenerChainID : nd \in Range(GetAllNetworkDefinitions)} \ {""}
    IN [c \in DOMAIN cp \cup ids |-> IF c \in DOMAIN cp THEN cp[c] ELSE << >>]

\* a store that adds the price to the one the key holds
StorePriceAdding(cp, dexscreenerID, address, price) ==
    [c \in DOMAIN cp |->
        IF c = dexscreenerID
        THEN [a \in DOMAIN cp[c] \cup {ToLower(address)} |->
                IF a # ToLower(address) THEN cp[c][a]
                ELSE IF a \in DOMAIN cp[c] THEN cp[c][a] + price ELSE price]
        ELSE cp[c]]

\* s.cachedPrices[dexscreenerID][strings.ToLower(tokenInfo.Address)] = price
StorePrice(cp, dexscreenerID, address, price) ==
    [c \in DOMAIN cp |->
        IF c = dexscreenerID
        THEN [a \in DOMAIN cp[c] \cup {ToLower(address)} |->
                IF a = ToLower(address) THEN price ELSE cp[c][a]]
        ELSE cp[c]]

\* ------------------------------------------------------------ price feed
stablecoinSymbols == {"USDC", "USDT", "DAI"}

\* strings.ToUpper on the quote symbols of the model
ToUpper(s) ==
    CASE s = "usdc" -> "USDC"
      [] s = "Dai" -> "DAI"
      [] s = "wbtc" -> "WBTC"
      [] OTHER -> s

\* PairData.Liquidity == nil
NoLiquidity == [Usd |-> Nil]

\* a PairData of the feed; liquidityUsd = Nil for a pair without the figure
PairData(base, quote, priceUsd, liquidityUsd) ==
    [BaseToken |-> [Address |-> base], QuoteToken |-> [Symbol |-> quote],
     PriceUsd |-> priceUsd, Liquidity |-> [Usd |-> liquidityUsd]]

\* a symbol test that does not fold case
IsStablecoinExact(symbol) == symbol \in stablecoinSymbols

\* _, isStablecoin := stablecoinSymbols[strings.ToUpper(pair.QuoteToken.Symbol)]
IsStablecoin(symbol) == ToUpper(symbol) \in stablecoinSymbols

\* the replacement test of both best-pair pointers: best is an index into
\* pairs, 0 for nil
ReplacesBest(pairs, i, best) ==
    \/ best = 0
    \/ /\ pairs[i].Liquidity # NoLiquidity
       /\ pairs[best].Liquidity # NoLiquidity
       /\ pairs[i].Liquidity.Usd > pairs[best].Liquidity.Usd

\* selectBestPriceFromPairs, the loop from pair i on
RECURSIVE SelectLoop(_, _, _, _, _)
SelectLoop(pairs, baseTokenAddress, i, bestOverallPair, bestStablecoinPair) ==
    IF i > Len(pairs)
    THEN [bestOverallPair |-> bestOverallPair, bestStablecoinPair |-> bestStablecoinPair]
    ELSE LET pair == pairs[i]
         IN IF ~EqualFold(pair.BaseToken.Address, baseTokenAddress)
            THEN SelectLoop(pairs, baseTokenAddress, i + 1, bestOverallPair,
                            bestStablecoinPair)
            ELSE IF pair.PriceUsd = "" \/ pair.PriceUsd = "0"
            THEN SelectLoop(pairs, baseTokenAddress, i + 1, bestOverallPair,
                            bestStablecoinPair)
            ELSE SelectLoop(pairs, baseTokenAddress, i + 1,
                    IF ReplacesBest(pairs, i, bestOverallPair) THEN i ELSE bestOverallPair,
                    IF IsStablecoin(pair.QuoteToken.Symbol)
                       /\ ReplacesBest(pairs, i, bestStablecoinPair)
                    THEN i ELSE bestStablecoinPair)

\* selectBestPriceFromPairs: the price string of the chosen pair, "" for none
selectBestPriceFromPairs(pairs, baseTokenAddress) ==
    IF Len(pairs) = 0 THEN ""
    ELSE LET best == SelectLoop(pairs, baseTokenAddress, 1, 0, 0)
         IN IF best.bestStablecoinPair # 0 THEN pairs[best.bestStablecoinPair].PriceUsd
            ELSE IF best.bestOverallPair # 0 THEN pairs[best.bestOverallPair].PriceUsd
            ELSE ""

\* consecutive slices of at most size tokens
RECURSIVE SlicesOf(_, _)
SlicesOf(tokens, size) ==
    LET end == IF size > Len(tokens) THEN Len(tokens) ELSE size
    IN IF Len(tokens) = 0 THEN <<>>
       ELSE <<SubSeq(tokens, 1, end)>> \o SlicesOf(SubSeq(tokens, end + 1, Len(tokens)), size)

\* a batching that takes the whole list as one batch when no size is configured
batchAllWhenUnset(tokens, batchSize) ==
    SlicesOf(tokens, IF batchSize <= 0 THEN Len(tokens) ELSE batchSize)

\* batchTokenInfos: consecutive slices of at most batchSize tokens
RECURSIVE batchTokenInfos(_, _)
batchTokenInfos(tokens, batchSize) ==
    LET size == IF batchSize <= 0 THEN DefaultBatchSize ELSE batchSize
        end == IF size > Len(tokens) THEN Len(tokens) ELSE size
    IN IF Len(tokens) = 0 THEN <<>>
       ELSE <<SubSeq(tokens, 1, end)>>
            \o batchTokenInfos(SubSeq(tokens, end + 1, Len(tokens)), batchSize)

\* LoadAndCacheTokenPrices, the loops over the catalog: the batches of every
\* network with a feed chain id and tokens, in launch order
RECURSIVE BatchesOf(_, _)
BatchesOf(networks, allTokensByChainID) ==
    IF networks = <<>> THEN <<>>
    ELSE LET netDef == Head(networks)
             key == FormatUint(netDef.ChainID)
             tokensForThisNetwork ==
                 IF key \in DOMAIN allTokensByChainID THEN allTokensByChainID[key] ELSE <<>>
             mine == IF netDef.DEXScreenerChainID = "" THEN <<>>
                     ELSE batchTokenInfos(tokensForThisNetwork, MaxTokensPerBatchRequest)
         IN [k \in 1..Len(mine) |->
                [dexscreenerID |-> netDef.DEXScreenerChainID, tokens |-> mine[k]]]
            \o BatchesOf(Tail(networks), allTokensByChainID)

\* the loop over pairs for one token: index of the first pair from i on whose
\* base token matches and whose price string parses, 0 when there is none
RECURSIVE FirstUsablePair(_, _, _)
FirstUsablePair(pairs, tokenInfo, i) ==
    IF i > Len(pairs) THEN 0
    ELSE IF /\ EqualFold(pairs[i].BaseToken.Address, tokenInfo.Address)
            /\ ~ParseFloat(pairs[i].PriceUsd).err
    THEN i
    ELSE FirstUsablePair(pairs, tokenInfo, i + 1)

\* the loop over the tokens of a batch: the cache after every token with a
\* usable pair has been stored
RECURSIVE StoreBatch(_, _, _, _)
StoreBatch(cp, dexscreenerID, batch, pairs) ==
    IF batch = <<>> THEN cp
    ELSE LET tokenInfo == Head(batch)
             hit == FirstUsablePair(pairs, tokenInfo, 1)
         IN StoreBatch(IF hit = 0 THEN cp
                       ELSE StorePrice(cp, dexscreenerID, tokenInfo.Address,
                                       ParseFloat(pairs[hit].PriceUsd).val),
                       dexscreenerID, Tail(batch), pairs)

\* a limit that ignores the configuration
ConcurrencyLimitDefault(cfgMaxConcurrentRoutines) == DefaultConcurrencyLimit

\* concurrencyLimit of one run
ConcurrencyLimit(cfgMaxConcurrentRoutines) ==
    IF cfgMaxConcurrentRoutines > 0 THEN cfgMaxConcurrentRoutines
    ELSE DefaultConcurrencyLimit

\* ------------------------------------------------------------ aggregator
\* an aggregator that shares no native price between networks
NoGloballyPricedNativeSymbols == {}

globallyPricedNativeSymbols == {"eth"}

\* a constructor that takes the limit as configured
NewPortfolioServiceAsConfigured(maxRoutines) == maxRoutines

\* maxRoutines <= 0 is coerced to 1
NewPortfolioService(maxRoutines) == IF maxRoutines <= 0 THEN 1 ELSE maxRoutines

\* the filter of trackedNetworkNames over the catalog
ActiveNetworkDefinitions(trackedNetworkNames) ==
    IF Len(trackedNetworkNames) = 0 THEN GetAllNetworkDefinitions
    ELSE LET trackedSet == {ToLower(name) : name \in Range(trackedNetworkNames)}
         IN SelectSeq(GetAllNetworkDefinitions,
                      LAMBDA netDef : ToLower(netDef.Identifier) \in trackedSet)

\* a lookup that answers with the first wallet when no line matches
GetWalletByAddressOrFirst(address) ==
    LET hits == {k \in 1..Len(GetWallets) : EqualFold(GetWallets[k].Address, address)}
    IN IF hits = {} THEN 1 ELSE CHOOSE k \in hits : \A j \in hits : k <= j

\* WalletFileLoader.GetWalletByAddress: index of the first line that matches
\* ignoring case, 0 when there is none
GetWalletByAddress(address) ==
    LET hits == {k \in 1..Len(GetWallets) : EqualFold(GetWallets[k].Address, address)}
    IN IF hits = {} THEN 0 ELSE CHOOSE k \in hits : \A j \in hits : k <= j

NativeDecimals(netDef) ==
    IF netDef.Decimals = 0 THEN DefaultNativeDecimals ELSE netDef.Decimals

\* a request list with one item per token handed in, whatever its chain id
BalanceRequestsUnfiltered(wallet, netDef, tokensForNetwork) ==
    <<[Type |-> "native", WalletAddress |-> wallet.Address, TokenAddress |-> "",
       TokenSymbol |-> netDef.NativeSymbol, TokenDecimals |-> NativeDecimals(netDef)]>>
    \o [k \in 1..Len(tokensForNetwork) |->
          [Type |-> "token", WalletAddress |-> wallet.Address,
           TokenAddress |-> tokensForNetwork[k].Address,
           TokenSymbol |-> tokensForNetwork[k].Symbol,
           TokenDecimals |-> tokensForNetwork[k].Decimals]]

\* fetchBalancesForNetwork, request part: one native item, then one item per
\* token whose chain id is the network's
BalanceRequests(wallet, netDef, tokensForNetwork) ==
    <<[Type |-> "native", WalletAddress |-> wallet.Address, TokenAddress |-> "",
       TokenSymbol |-> netDef.NativeSymbol, TokenDecimals |-> NativeDecimals(netDef)]>>
    \o [k \in 1..Len(SelectSeq(tokensForNetwork,
                     LAMBDA t : FormatUint(t.ChainID) = FormatUint(netDef.ChainID))) |->
          LET token == SelectSeq(tokensForNetwork,
                     LAMBDA t : FormatUint(t.ChainID) = FormatUint(netDef.ChainID))[k]
          IN [Type |-> "token", WalletAddress |-> wallet.Address,
              TokenAddress |-> token.Address, TokenSymbol |-> token.Symbol,
              TokenDecimals |-> token.Decimals]]

\* EVMClient.GetBalances, one result item: the request's fields, and either an
\* error or a balance with its formatted string; an item left without error
\* and without balance (outcome Nil) gets the balance 0 and the string "0"
ResultItem(req, outcome) ==
    [WalletAddress |-> req.WalletAddress, TokenAddress |-> req.TokenAddress,
     TokenSymbol |-> req.TokenSymbol, Decimals |-> req.TokenDecimals,
     IsNative |-> (req.Type = "native"),
     Balance |-> IF outcome = ItemFailed THEN Nil
                 ELSE IF outcome = Nil THEN 0 ELSE outcome,
     FormattedBalance |->
        IF outcome = ItemFailed \/ outcome = Nil THEN [int |-> 0, frac |-> <<>>]
        ELSE FormatBigInt(outcome, req.TokenDecimals).str,
     Error |-> IF outcome = ItemFailed THEN "rpc error" ELSE NoError]

\* what the decoding of the sub-responses can leave per request: the balance
\* on the chain, an error, or neither
DecodedOutcomes(netDef, requests) ==
    [1..Len(requests) ->
        {ItemFailed, Nil} \cup
        {BalanceOnChain(rq.WalletAddress, netDef.ChainID, rq.TokenAddress) :
            rq \in Range(requests)}]

\* GetBalances returning without a batch error on the decoded outcomes
ReturnOn(requests, outcomes) ==
    [err |-> FALSE,
     results |-> [k \in 1..Len(requests) |-> ResultItem(requests[k], outcomes[k])]]

\* what GetBalances can return for a request list on a network: a batch
\* error, or one result per request, in request order, each the balance on
\* the chain or the error of its sub-request
GatewayReturns(netDef, requests) ==
    {[err |-> TRUE, results |-> <<>>]} \cup
    {[err |-> FALSE,
      results |-> [k \in 1..Len(requests) |->
            ResultItem(requests[k],
                       IF k \in failing THEN ItemFailed
                       ELSE BalanceOnChain(requests[k].WalletAddress, netDef.ChainID,
                                           requests[k].TokenAddress))]] :
        failing \in SUBSET (1..Len(requests))}

PortfolioError(wallet, netDef, symbol, address, isNative, message) ==
    [WalletAddress |-> wallet, NetworkName |-> netDef.Name,
     ChainID |-> FormatUint(netDef.ChainID), TokenSymbol |-> symbol,
     TokenAddress |-> address, IsNative |-> isNative, Message |-> message]

\* the error of a call that could not load its wallets or tokens
LoadError(message) ==
    [WalletAddress |-> "", NetworkName |-> "", ChainID |-> "", TokenSymbol |-> "",
     TokenAddress |-> "", IsNative |-> FALSE, Message |-> message]

\* a result loop that keeps zero balances
RECURSIVE ProcessResultsKeepingZero(_, _)
ProcessResultsKeepingZero(netDef, batchResults) ==
    IF batchResults = <<>> THEN [balances |-> <<>>, errors |-> <<>>]
    ELSE LET resItem == Head(batchResults)
             rest == ProcessResultsKeepingZero(netDef, Tail(batchResults))
         IN IF resItem.Error # NoError
            THEN [balances |-> rest.balances,
                  errors |-> <<PortfolioError(resItem.WalletAddress, netDef,
                                 resItem.TokenSymbol, resItem.TokenAddress,
                                 resItem.IsNative, resItem.Error)>> \o rest.errors]
            ELSE IF resItem.Balance # Nil
            THEN [balances |-> <<[WalletAddress |-> resItem.WalletAddress,
                                  NetworkName |-> netDef.Name,
                                  ChainID |-> FormatUint(netDef.ChainID),
                                  TokenAddress |-> resItem.TokenAddress,
                                  TokenSymbol |-> resItem.TokenSymbol,
                                  Decimals |-> resItem.Decimals,
                                  IsNative |-> resItem.IsNative,
                                  Amount |-> resItem.Balance,
                                  FormattedBalance |-> resItem.FormattedBalance]>>
                                \o rest.balances,
                  errors |-> rest.errors]
            ELSE rest

\* a result loop that returns at the first item error
RECURSIVE ProcessResultsStoppingAtError(_, _)
ProcessResultsStoppingAtError(netDef, batchResults) ==
    IF batchResults = <<>> THEN [balances |-> <<>>, errors |-> <<>>]
    ELSE LET resItem == Head(batchResults)
             rest == ProcessResultsStoppingAtError(netDef, Tail(batchResults))
         IN IF resItem.Error # NoError
            THEN [balances |-> <<>>,
                  errors |-> <<PortfolioError(resItem.WalletAddress, netDef,
                                 resItem.TokenSymbol, resItem.TokenAddress,
                                 resItem.IsNative, resItem.Error)>>]
            ELSE IF resItem.Balance # Nil /\ resItem.Balance # 0
            THEN [balances |-> <<[WalletAddress |-> resItem.WalletAddress,
                                  NetworkName |-> netDef.Name,
                                  ChainID |-> FormatUint(netDef.ChainID),
                                  TokenAddress |-> resItem.TokenAddress,
                                  TokenSymbol |-> resItem.TokenSymbol,
                                  Decimals |-> resItem.Decimals,
                                  IsNative |-> resItem.IsNative,
                                  Amount |-> resItem.Balance,
                                  FormattedBalance |-> resItem.FormattedBalance]>>
                                \o rest.balances,
                  errors |-> rest.errors]
            ELSE rest

\* fetchBalancesForNetwork, result part: per-item errors become errors, zero
\* and nil balances are skipped, the rest become balances
RECURSIVE ProcessResults(_, _)
ProcessResults(netDef, batchResults) ==
    IF batchResults = <<>> THEN [balances |-> <<>>, errors |-> <<>>]
    ELSE LET resItem == Head(batchResults)
             rest == ProcessResults(netDef, Tail(batchResults))
         IN IF resItem.Error # NoError
            THEN [balances |-> rest.balances,
                  errors |-> <<PortfolioError(resItem.WalletAddress, netDef,
                                 resItem.TokenSymbol, resItem.TokenAddress,
                                 resItem.IsNative, resItem.Error)>> \o rest.errors]
            ELSE IF resItem.Balance # Nil /\ resItem.Balance # 0
            THEN [balances |-> <<[WalletAddress |-> resItem.WalletAddress,
                                  NetworkName |-> netDef.Name,
                                  ChainID |-> FormatUint(netDef.ChainID),
                                  TokenAddress |-> resItem.TokenAddress,
                                  TokenSymbol |-> resItem.TokenSymbol,
                                  Decimals |-> resItem.Decimals,
                                  IsNative |-> resItem.IsNative,
                                  Amount |-> resItem.Balance,
                                  FormattedBalance |-> resItem.FormattedBalance]>>
                                \o rest.balances,
                  errors |-> rest.errors]
            ELSE rest

\* fetchBalancesForNetwork after the gateway returned ret
FetchBalancesForNetwork(wallet, netDef, ret) ==
    IF ret.err
    THEN [balances |-> <<>>,
          errors |-> <<PortfolioError(wallet.Address, netDef, "", "", FALSE,
                                      "batch balance fetch failed")>>]
    ELSE ProcessResults(netDef, ret.results)

\* fetchSingleWalletPortfolio, the price of one balance line: the price, and
\* the symbol-keyed slot after the lookup
PriceOf(nb, nd, cp, gp) ==
    LET canFetchPrices == nd.DEXScreenerChainID # ""
        isNative == nb.TokenAddress = "" \/ EqualFold(nb.TokenAddress, ZeroAddress)
        nativeSymbolLower == ToLower(nd.NativeSymbol)
        isGloballyPricedAsset == nativeSymbolLower \in globallyPricedNativeSymbols
        global == GetGlobalNativeTokenPrice(gp, nativeSymbolLower)
        fromGlobal == IF isGloballyPricedAsset /\ global.found THEN global.price ELSE 0
        hasWrapped == nd.WrappedNativeTokenAddress # ""
                      /\ ~EqualFold(nd.WrappedNativeTokenAddress, ZeroAddress)
        wrapped == GetPriceUSD(cp, nd.DEXScreenerChainID, ToLower(nd.WrappedNativeTokenAddress))
        direct == GetPriceUSD(cp, nd.DEXScreenerChainID, ToLower(nb.TokenAddress))
    IN IF isNative
       THEN IF fromGlobal # 0 THEN [price |-> fromGlobal, gp |-> gp]
            ELSE IF canFetchPrices /\ hasWrapped /\ wrapped.found /\ wrapped.price > 0
            THEN [price |-> wrapped.price,
                  gp |-> IF isGloballyPricedAsset
                         THEN TrySetGlobalNativeTokenPrice(gp, nativeSymbolLower, wrapped.price)
                         ELSE gp]
            ELSE [price |-> 0, gp |-> gp]
       ELSE IF canFetchPrices /\ direct.found /\ direct.price > 0
            THEN [price |-> direct.price, gp |-> gp]
            ELSE [price |-> 0, gp |-> gp]

\* a valuation that takes one dollar per unit whatever the price is
ValueOfAtPar(nb, priceUSD) == IF nb.Amount # Nil THEN nb.Amount * 100 ELSE 0

\* the value of one balance line at a price
ValueOf(nb, priceUSD) ==
    IF nb.Amount # Nil /\ priceUSD > 0
    THEN LET c == CalculateValueUSD(nb.Amount, nb.Decimals, priceUSD)
         IN IF c.err THEN 0 ELSE c.val
    ELSE 0

\* fetchSingleWalletPortfolio, the loop over networkBalances: the token
\* details in order, their summed value, and the slot afterwards
RECURSIVE PriceBalances(_, _, _, _)
PriceBalances(networkBalances, nd, cp, gp) ==
    IF networkBalances = <<>> THEN [details |-> <<>>, total |-> 0, gp |-> gp]
    ELSE LET nb == Head(networkBalances)
             p == PriceOf(nb, nd, cp, gp)
             valueUSD == ValueOf(nb, p.price)
             td == [TokenAddress |-> nb.TokenAddress, TokenSymbol |-> nb.TokenSymbol,
                    Decimals |-> nb.Decimals, FormattedBalance |-> nb.FormattedBalance,
                    PriceUSD |-> p.price, ValueUSD |-> valueUSD]
             rest == PriceBalances(Tail(networkBalances), nd, cp, p.gp)
         IN [details |-> <<td>> \o rest.details,
             total |-> valueUSD + rest.total,
             gp |-> rest.gp]

EmptyPortfolio(address) ==
    [WalletAddress |-> address, BalancesByNetwork |-> << >>, TotalValueUSD |-> 0]

\* portfolio.BalancesByNetwork[nd.Name] = networkTokenEntry
PutNetwork(balancesByNetwork, name, entry) ==
    [k \in DOMAIN balancesByNetwork \cup {name} |->
        IF k = name THEN entry ELSE balancesByNetwork[k]]

\* ------------------------------------------------------------ state
VARIABLES
    maxConcurrentRoutines,  \* PortfolioServiceImpl.maxConcurrentRoutines
    failedWallets,          \* PortfolioServiceImpl.failedWallets (keys set to true)
    cachedPrices,           \* tokenPriceServiceImpl.cachedPrices
    globalNativePrices,     \* tokenPriceServiceImpl.globalNativePrices
    clients,                \* evmClientProvider.clients: network name -> the client kept
                            \* for it, named by its ordinal among the clients created
                            \* for that network
    phase,                  \* "idle", or the call in progress: "all", "one"
    ncalls,                 \* aggregation calls started so far
    activeNetworkDefinitions, \* the networks the call in progress resolved
    ctxDone,                \* the call's context has been cancelled
    networkSemaphore,       \* slots of networkSemaphore in use
    wpc,                    \* per wallet: position of its goroutine
    wNext,                  \* per wallet: index of the next network to hand out
    portfolio,              \* per wallet: fetchSingleWalletPortfolio's portfolio
    singleWalletErrs,       \* per wallet: fetchSingleWalletPortfolio's error list
    overallWalletTotalValueUSD, \* per wallet: running total
    tpc,                    \* per (wallet, network): position of the sub-task
    gatewayCalls,           \* per (wallet, network): GetBalances invocations
    lateCall,               \* per (wallet, network): invoked on a cancelled context
    resp,                   \* per (wallet, network): what the gateway returned
    results,                \* FetchAllWalletsPortfolio's results channel
    allPortfolioErrors,     \* FetchAllWalletsPortfolio's error list
    ret,                    \* what the last finished call returned
    refresh,                \* per run of LoadAndCacheTokenPrices: position, limit, return
    batches,                \* per run: its batches, in launch order
    bpc,                    \* per run and batch: position of its goroutine
    feedCalls,              \* per run and batch: GetTokenPairsByAddresses invocations
    feedResp,               \* per run and batch: what the feed returned
    lastWrite,              \* per cached key: price last written, ticks since
    selection,              \* selectBestPriceFromPairs: arguments and result
    batching                \* batchTokenInfos: arguments and result

vars == <<maxConcurrentRoutines, failedWallets, cachedPrices, globalNativePrices,
          clients, phase, ncalls, activeNetworkDefinitions, ctxDone,
          networkSemaphore, wpc, wNext, portfolio, singleWalletErrs,
          overallWalletTotalValueUSD, tpc, gatewayCalls, lateCall, resp, results,
          allPortfolioErrors, ret, refresh, batches, bpc, feedCalls, feedResp,
          lastWrite, selection, batching>>

feedVars == <<refresh, batches, bpc, feedCalls, feedResp, lastWrite>>
pricingVars == <<feedVars, selection, batching>>
serviceVars == <<maxConcurrentRoutines, failedWallets, clients>>
priceVars == <<cachedPrices, globalNativePrices>>
walletVars == <<wpc, wNext, portfolio, singleWalletErrs, overallWalletTotalValueUSD>>
taskVars == <<tpc, gatewayCalls, lateCall, resp>>

WalletIdx == 1..NumWallets
NetIdx == 1..Len(GetAllNetworkDefinitions)
Tasks == WalletIdx \X NetIdx

\* markers in resp: no answer yet, and no gateway instance
NoReturn == [err |-> FALSE, results |-> <<>>, kind |-> "none"]
NoClient == [err |-> TRUE, results |-> <<>>, kind |-> "no_client"]
Returned(r) == [err |-> r.err, results |-> r.results, kind |-> "returned"]

\* the cache when serving starts: no refresh has run, or the startup refresh
\* has finished, with no pair for WETH or with a pair at one of the prices
StartupCaches ==
    {<< >>, InitChainMaps(<< >>)} \cup
    {StorePrice(InitChainMaps(<< >>), Ethereum.DEXScreenerChainID, TokenWETH.Address,
                ParseFloat(p).val) : p \in {"2.5", "0"}}

NoResult ==
    [kind |-> "none", seq |-> 0, address |-> "", portfolios |-> <<>>, errors |-> <<>>,
     err |-> NoError]

Runs == 1..MaxRefreshes
NoRefresh ==
    [pc |-> "idle", next |-> 1, configured |-> 0, limit |-> 0, ret |-> "none", count |-> 0]
NoSelection == [done |-> FALSE, pairs |-> <<>>, baseTokenAddress |-> "", priceUsd |-> ""]
NoBatching == [done |-> FALSE, tokens |-> <<>>, batchSize |-> 0, batches |-> <<>>]

\* the services after construction, whatever selectBestPriceFromPairs is given
InitService ==
    /\ maxConcurrentRoutines \in {NewPortfolioService(m) : m \in 0..MaxRoutinesCfg}
    /\ failedWallets = {}
    /\ cachedPrices \in StartupCaches
    /\ globalNativePrices = << >>
    /\ clients = << >>
    /\ phase = "idle"
    /\ ncalls = 0
    /\ activeNetworkDefinitions = <<>>
    /\ ctxDone = FALSE
    /\ networkSemaphore = 0
    /\ wpc = [i \in WalletIdx |-> "idle"]
    /\ wNext = [i \in WalletIdx |-> 1]
    /\ portfolio = [i \in WalletIdx |-> EmptyPortfolio(GetWallets[i].Address)]
    /\ singleWalletErrs = [i \in WalletIdx |-> <<>>]
    /\ overallWalletTotalValueUSD = [i \in WalletIdx |-> 0]
    /\ tpc = [t \in Tasks |-> "none"]
    /\ gatewayCalls = [t \in Tasks |-> 0]
    /\ lateCall = [t \in Tasks |-> FALSE]
    /\ resp = [t \in Tasks |-> NoReturn]
    /\ results = <<>>
    /\ allPortfolioErrors = <<>>
    /\ ret = NoResult
    /\ refresh = [r \in Runs |-> NoRefresh]
    /\ batches = [r \in Runs |-> <<>>]
    /\ bpc = [r \in Runs |-> <<>>]
    /\ feedCalls = [r \in Runs |-> <<>>]
    /\ feedResp = [r \in Runs |-> <<>>]
    /\ lastWrite = << >>

Init ==
    /\ InitService
    /\ selection = NoSelection
    /\ batching = NoBatching

\* the per-call state a call starts from, with the goroutines of `running`
StartCall(kind, active, running) ==
    /\ phase' = kind
    /\ activeNetworkDefinitions' = active
    /\ ctxDone' = FALSE
    /\ networkSemaphore' = 0
    /\ wpc' = [i \in WalletIdx |-> IF i \in running THEN "loop" ELSE "idle"]
    /\ wNext' = [i \in WalletIdx |-> 1]
    /\ portfolio' = [i \in WalletIdx |-> EmptyPortfolio(GetWallets[i].Address)]
    /\ singleWalletErrs' = [i \in WalletIdx |-> <<>>]
    /\ overallWalletTotalValueUSD' = [i \in WalletIdx |-> 0]
    /\ tpc' = [t \in Tasks |-> "none"]
    /\ gatewayCalls' = [t \in Tasks |-> 0]
    /\ lateCall' = [t \in Tasks |-> FALSE]
    /\ resp' = [t \in Tasks |-> NoReturn]
    /\ results' = <<>>
    /\ allPortfolioErrors' = <<>>

callVars == <<activeNetworkDefinitions, ctxDone, networkSemaphore, walletVars,
              taskVars, results, allPortfolioErrors>>

\* FetchAllWalletsPortfolio up to the start of the wallet goroutines; `load`
\* is how the wallet and token providers answer, `calls` the number of calls
\* the process serves
FetchAllWalletsPortfolioWithin(calls, trackedNetworkNames, load) ==
    /\ phase = "idle"
    /\ ncalls < calls
    /\ ncalls' = ncalls + 1
    /\ UNCHANGED <<pricingVars, serviceVars, priceVars>>
    /\ LET active == IF load = "no_networks" THEN <<>>
                     ELSE ActiveNetworkDefinitions(trackedNetworkNames)
       IN IF load = "wallets_failed"
          THEN /\ ret' = [kind |-> "all", seq |-> ncalls + 1, address |-> "",
                          portfolios |-> <<>>,
                          errors |-> <<LoadError("failed to load wallets")>>, err |-> NoError]
               /\ UNCHANGED <<phase, callVars>>
          ELSE IF Len(active) = 0
          THEN /\ ret' = [kind |-> "all", seq |-> ncalls + 1, address |-> "",
                          portfolios |-> <<>>,
                          errors |-> <<>>, err |-> NoError]
               /\ UNCHANGED <<phase, callVars>>
          ELSE IF load = "tokens_failed"
          THEN /\ ret' = [kind |-> "all", seq |-> ncalls + 1, address |-> "",
                          portfolios |-> <<>>,
                          errors |-> <<LoadError("failed to load tokens")>>, err |-> NoError]
               /\ UNCHANGED <<phase, callVars>>
          ELSE /\ StartCall("all", active, WalletIdx)
               /\ UNCHANGED ret

\* FetchSingleWalletPortfolioByAddress up to the call of fetchSingleWalletPortfolio
FetchSingleWalletPortfolioByAddressWithin(calls, walletAddress, trackedNetworkNames, load) ==
    /\ phase = "idle"
    /\ ncalls < calls
    /\ ncalls' = ncalls + 1
    /\ UNCHANGED <<pricingVars, serviceVars, priceVars>>
    /\ LET active == IF load = "no_networks" THEN <<>>
                     ELSE ActiveNetworkDefinitions(trackedNetworkNames)
           k == GetWalletByAddress(walletAddress)
       IN IF load = "wallets_failed" \/ k = 0
          THEN /\ ret' = [kind |-> "one", seq |-> ncalls + 1, address |-> walletAddress,
                          portfolios |-> <<>>,
                          errors |-> <<>>, err |-> "wallet not found"]
               /\ UNCHANGED <<phase, callVars>>
          ELSE IF Len(active) = 0
          THEN /\ ret' = [kind |-> "one", seq |-> ncalls + 1, address |-> walletAddress,
                          portfolios |-> <<>>,
                          errors |-> <<>>, err |-> "no active or tracked networks"]
               /\ UNCHANGED <<phase, callVars>>
          ELSE IF load = "tokens_failed"
          THEN /\ ret' = [kind |-> "one", seq |-> ncalls + 1, address |-> walletAddress,
                          portfolios |-> <<>>,
                          errors |-> <<>>, err |-> "failed to load tokens"]
               /\ UNCHANGED <<phase, callVars>>
          ELSE /\ StartCall("one", active, {k})
               /\ UNCHANGED ret

FetchAllWalletsPortfolio(trackedNetworkNames, load) ==
    FetchAllWalletsPortfolioWithin(MaxCalls, trackedNetworkNames, load)

FetchSingleWalletPortfolioByAddress(walletAddress, trackedNetworkNames, load) ==
    FetchSingleWalletPortfolioByAddressWithin(MaxCalls, walletAddress, trackedNetworkNames, load)

\* a semaphore that never blocks
SemaphoreAlwaysHasRoom(inUse, capacity) == TRUE

\* networkSemaphore <- struct{}{} proceeds while the channel has room
SemaphoreHasRoom(inUse, capacity) == inUse < capacity

\* fetchSingleWalletPortfolio, one iteration of the loop over the networks:
\* take a slot, start the sub-task
SpawnNetworkTask(i) ==
    /\ wpc[i] = "loop"
    /\ wNext[i] <= Len(activeNetworkDefinitions)
    /\ SemaphoreHasRoom(networkSemaphore, maxConcurrentRoutines)
    /\ networkSemaphore' = networkSemaphore + 1
    /\ tpc' = [tpc EXCEPT ![<<i, wNext[i]>>] = "spawned"]
    /\ wNext' = [wNext EXCEPT ![i] = @ + 1]
    /\ UNCHANGED <<pricingVars, serviceVars, priceVars, phase, ncalls,
                   activeNetworkDefinitions, ctxDone,
                   wpc, portfolio, singleWalletErrs, overallWalletTotalValueUSD,
                   gatewayCalls, lateCall, resp, results, allPortfolioErrors, ret>>

\* a provider that creates a client on every request, and keeps the last one
GetClientUncached(cl, netDef) ==
    LET created == IF netDef.Name \in DOMAIN cl THEN cl[netDef.Name] + 1 ELSE 1
    IN [clients |-> [name \in DOMAIN cl \cup {netDef.Name} |->
                        IF name = netDef.Name THEN created ELSE cl[name]],
        client |-> created]

\* evmClientProvider.GetClient when NewEVMClient succeeds, under p.mu: the
\* client kept for the network if there is one, else a new one, kept
GetClient(cl, netDef) ==
    IF netDef.Name \in DOMAIN cl
    THEN [clients |-> cl, client |-> cl[netDef.Name]]
    ELSE [clients |-> [name \in DOMAIN cl \cup {netDef.Name} |->
                          IF name = netDef.Name THEN 1 ELSE cl[name]],
          client |-> 1]

\* the sub-task when evmClientProvider.GetClient fails: creation is attempted
\* only for a network without a memoized client
GetClientFails(i, n) ==
    LET nd == activeNetworkDefinitions[n] IN
    /\ tpc[<<i, n>>] = "spawned"
    /\ nd.Name \notin DOMAIN clients
    /\ singleWalletErrs' = [singleWalletErrs EXCEPT ![i] =
            Append(@, PortfolioError(GetWallets[i].Address, nd, "", "", FALSE,
                                     "Failed to get client"))]
    /\ resp' = [resp EXCEPT ![<<i, n>>] = NoClient]
    /\ tpc' = [tpc EXCEPT ![<<i, n>>] = "done"]
    /\ networkSemaphore' = networkSemaphore - 1
    /\ UNCHANGED <<pricingVars, serviceVars, priceVars, phase, ncalls,
                   activeNetworkDefinitions, ctxDone,
                   wpc, wNext, portfolio, overallWalletTotalValueUSD,
                   gatewayCalls, lateCall, results, allPortfolioErrors, ret>>

\* the sub-task from GetClient (memoized or created) to the invocation of
\* client.GetBalances on the whole request list
CallGateway(i, n) ==
    LET nd == activeNetworkDefinitions[n] IN
    /\ tpc[<<i, n>>] = "spawned"
    /\ clients' = GetClient(clients, nd).clients
    /\ tpc' = [tpc EXCEPT ![<<i, n>>] = "calling"]
    /\ gatewayCalls' = [gatewayCalls EXCEPT ![<<i, n>>] = @ + 1]
    /\ lateCall' = [lateCall EXCEPT ![<<i, n>>] = ctxDone]
    /\ UNCHANGED <<pricingVars, maxConcurrentRoutines, failedWallets, priceVars, phase, ncalls,
                   activeNetworkDefinitions, ctxDone, networkSemaphore, walletVars,
                   resp, results, allPortfolioErrors, ret>>

\* the requests of sub-task (i, n)
RequestsOf(i, n) ==
    LET nd == activeNetworkDefinitions[n]
    IN BalanceRequests(GetWallets[i], nd,
                       GetTokensByNetwork(activeNetworkDefinitions)[FormatUint(nd.ChainID)])

\* a sub-task that asks the gateway again after a failed call
RetryAfterGatewayError(r) == IF r.err THEN "spawned" ELSE "done"

\* where the sub-task goes after the gateway returned
AfterGatewayReturn(r) == "done"

\* a running total that is overwritten instead of accumulated
KeepLastNetworkTotal(overall, priced) == priced.total

\* overallWalletTotalValueUSD += networkTotalValueUSD, for an included network
AddNetworkTotal(overall, priced) == overall + priced.total

\* the symbol-keyed slot after a task that read it as `seen` has made its
\* calls of TrySetGlobalNativeTokenPrice, which led from `seen` to `after`
WriteBack(current, seen, after) ==
    IF seen = current THEN after
    ELSE [symbol \in DOMAIN current \cup DOMAIN after |->
            IF symbol \in DOMAIN after /\ symbol \notin DOMAIN seen
            THEN after[symbol] ELSE current[symbol]]

\* the sub-task, at position `from`, from the return r of GetBalances to its
\* end: the results are turned into balances and errors, and under the
\* wallet's mutex the errors are appended, the balances priced on the slot as
\* the task read it and the network entered
FinishNetworkTaskSeeing(i, n, r, from, seen) ==
    LET nd == activeNetworkDefinitions[n]
        t == <<i, n>>
    IN
    /\ tpc[t] = from
    /\ lateCall[t] => r.err
    /\ LET fetched == FetchBalancesForNetwork(GetWallets[i], nd, r)
               priced == PriceBalances(fetched.balances, nd, cachedPrices, seen)
               included == Len(fetched.balances) > 0 /\ Len(priced.details) > 0
           IN
           /\ resp' = [resp EXCEPT ![t] = Returned(r)]
           /\ singleWalletErrs' = [singleWalletErrs EXCEPT ![i] = @ \o fetched.errors]
           /\ globalNativePrices' = WriteBack(globalNativePrices, seen, priced.gp)
           /\ portfolio' = IF included
                THEN [portfolio EXCEPT ![i].BalancesByNetwork =
                        PutNetwork(@, nd.Name,
                                   [ChainID |-> FormatUint(nd.ChainID),
                                    Tokens |-> priced.details,
                                    TotalValueUSD |-> priced.total])]
                ELSE portfolio
           /\ overallWalletTotalValueUSD' = IF included
                THEN [overallWalletTotalValueUSD EXCEPT ![i] = AddNetworkTotal(@, priced)]
                ELSE overallWalletTotalValueUSD
           /\ tpc' = [tpc EXCEPT ![t] = AfterGatewayReturn(r)]
    /\ networkSemaphore' = networkSemaphore - 1
    /\ UNCHANGED <<pricingVars, serviceVars, cachedPrices, phase, ncalls, activeNetworkDefinitions,
                   ctxDone, wpc, wNext, gatewayCalls, lateCall, results,
                   allPortfolioErrors, ret>>

\* the sub-task from the return r of GetBalances to its end, no other
\* goroutine running between its reading and its writing of the slot
FinishNetworkTaskOn(i, n, r) ==
    FinishNetworkTaskSeeing(i, n, r, "calling", globalNativePrices)

\* the wallet's mutex is free
MutexFree(i) == \A n \in NetIdx : tpc[<<i, n>>] # "sawNoPrice"

\* the sub-task, under the wallet's mutex, has asked GetGlobalNativeTokenPrice
\* for the symbol of its network and found nothing
ReadSlotMiss(i, n) ==
    /\ tpc[<<i, n>>] = "calling"
    /\ MutexFree(i)
    /\ ToLower(activeNetworkDefinitions[n].NativeSymbol) \in globallyPricedNativeSymbols
    /\ ToLower(activeNetworkDefinitions[n].NativeSymbol) \notin DOMAIN globalNativePrices
    /\ tpc' = [tpc EXCEPT ![<<i, n>>] = "sawNoPrice"]
    /\ UNCHANGED <<pricingVars, serviceVars, priceVars, phase, ncalls,
                   activeNetworkDefinitions, ctxDone, networkSemaphore, walletVars,
                   gatewayCalls, lateCall, resp, results, allPortfolioErrors, ret>>

\* the sub-task goes on from there: the wrapped-token lookup, the call of
\* TrySetGlobalNativeTokenPrice and the rest, on the slot as it was read
FinishAfterMiss(i, n) ==
    /\ tpc[<<i, n>>] = "sawNoPrice"
    /\ \E r \in GatewayReturns(activeNetworkDefinitions[n], RequestsOf(i, n)) :
          /\ ~r.err
          /\ FinishNetworkTaskSeeing(i, n, r, "sawNoPrice",
                [symbol \in DOMAIN globalNativePrices
                            \ {ToLower(activeNetworkDefinitions[n].NativeSymbol)} |->
                    globalNativePrices[symbol]])

\* the sub-task ends on one of the returns of the gateway
FinishNetworkTask(i, n) ==
    /\ tpc[<<i, n>>] = "calling"
    /\ \E r \in GatewayReturns(activeNetworkDefinitions[n], RequestsOf(i, n)) :
          FinishNetworkTaskOn(i, n, r)

\* the sub-task prices in one piece when it has the wallet's mutex
FinishUnderMutex(i, n) == MutexFree(i) /\ FinishNetworkTask(i, n)

\* a send that leaves out a portfolio without networks
SendResultUnlessEmpty(ch, p) == IF DOMAIN p.BalancesByNetwork = {} THEN ch ELSE Append(ch, p)

\* results <- walletPortfolioResult
SendResult(ch, p) == Append(ch, p)

\* fetchSingleWalletPortfolio from wg.Wait() to its return, and in
\* FetchAllWalletsPortfolio the send on the results channel
JoinNetworkTasks(i) ==
    /\ wpc[i] = "loop"
    /\ wNext[i] > Len(activeNetworkDefinitions)
    /\ \A n \in 1..Len(activeNetworkDefinitions) : tpc[<<i, n>>] = "done"
    /\ portfolio' = [portfolio EXCEPT ![i].TotalValueUSD = overallWalletTotalValueUSD[i]]
    /\ results' = IF phase = "all" THEN SendResult(results, portfolio'[i]) ELSE results
    /\ wpc' = [wpc EXCEPT ![i] = IF Len(singleWalletErrs[i]) > 0 THEN "mark" ELSE "done"]
    /\ UNCHANGED <<pricingVars, serviceVars, priceVars, phase, ncalls,
                   activeNetworkDefinitions, ctxDone,
                   networkSemaphore, wNext, singleWalletErrs, overallWalletTotalValueUSD,
                   taskVars, allPortfolioErrors, ret>>

\* a marking that records every wallet of the source
MarkAllFailed(failed, address) == failed \cup {w.Address : w \in Range(GetWallets)}

\* a marking that keeps only the wallet that failed last
MarkOnlyLastFailed(failed, address) == {address}

\* a marking that records nothing
MarkNoneFailed(failed, address) == failed

\* s.failedWallets[w.Address] = true
MarkFailed(failed, address) == failed \cup {address}

\* under s.mu: the wallet enters the failed-wallet set
MarkWalletFailed(i) ==
    /\ wpc[i] = "mark"
    /\ failedWallets' = MarkFailed(failedWallets, GetWallets[i].Address)
    /\ wpc' = [wpc EXCEPT ![i] = IF phase = "all" THEN "append" ELSE "done"]
    /\ UNCHANGED <<pricingVars, maxConcurrentRoutines, clients, priceVars, phase, ncalls,
                   activeNetworkDefinitions, ctxDone, networkSemaphore, wNext, portfolio,
                   singleWalletErrs, overallWalletTotalValueUSD, taskVars, results,
                   allPortfolioErrors, ret>>

\* under errorMu: the wallet's errors join the call's error list
AppendWalletErrors(i) ==
    /\ wpc[i] = "append"
    /\ allPortfolioErrors' = allPortfolioErrors \o singleWalletErrs[i]
    /\ wpc' = [wpc EXCEPT ![i] = "done"]
    /\ UNCHANGED <<pricingVars, serviceVars, priceVars, phase, ncalls,
                   activeNetworkDefinitions, ctxDone,
                   networkSemaphore, wNext, portfolio, singleWalletErrs,
                   overallWalletTotalValueUSD, taskVars, results, ret>>

\* FetchAllWalletsPortfolio from wg.Wait() to its return
FetchAllReturns ==
    /\ phase = "all"
    /\ \A i \in WalletIdx : wpc[i] = "done"
    /\ ret' = [kind |-> "all", seq |-> ncalls, address |-> "", portfolios |-> results,
               errors |-> allPortfolioErrors, err |-> NoError]
    /\ phase' = "idle"
    /\ UNCHANGED <<pricingVars, serviceVars, priceVars, ncalls, callVars>>

\* FetchSingleWalletPortfolioByAddress: its return
FetchOneReturns ==
    /\ phase = "one"
    /\ \E i \in WalletIdx :
        /\ wpc[i] = "done"
        /\ ret' = [kind |-> "one", seq |-> ncalls, address |-> GetWallets[i].Address,
                   portfolios |-> <<portfolio[i]>>,
                   errors |-> singleWalletErrs[i], err |-> NoError]
    /\ phase' = "idle"
    /\ UNCHANGED <<pricingVars, serviceVars, priceVars, ncalls, callVars>>

\* the caller cancels the context of the call in progress
CancelContext ==
    /\ phase # "idle"
    /\ ~ctxDone
    /\ ctxDone' = TRUE
    /\ UNCHANGED <<pricingVars, serviceVars, priceVars, phase, ncalls, activeNetworkDefinitions,
                   networkSemaphore, walletVars, taskVars, results, allPortfolioErrors, ret>>

\* GetFailedWallets: the addresses of the set (in map order)
GetFailedWallets == failedWallets

\* LoadAndCacheTokenPrices: the chain maps are created before any fetch
RefreshBegins ==
    /\ cachedPrices # InitChainMaps(cachedPrices)
    /\ cachedPrices' = InitChainMaps(cachedPrices)
    /\ UNCHANGED <<pricingVars, serviceVars, globalNativePrices, phase, ncalls, callVars, ret>>

\* addresses the price feed knows a pair for
FeedAddresses == {"0xc02a"}

\* LoadAndCacheTokenPrices, one token of a batch: the price of the first
\* pair whose base token matches and whose price string parses is stored
RefreshStoresPrice(n, k, priceUsd) ==
    LET netDef == GetAllNetworkDefinitions[n]
        dexscreenerID == netDef.DEXScreenerChainID
        tokens == GetTokensByNetwork(GetAllNetworkDefinitions)[FormatUint(netDef.ChainID)]
    IN
    /\ dexscreenerID # ""
    /\ dexscreenerID \in DOMAIN cachedPrices
    /\ k \in 1..Len(tokens)
    /\ \E base \in FeedAddresses : EqualFold(base, tokens[k].Address)
    /\ ~ParseFloat(priceUsd).err
    /\ cachedPrices' = StorePrice(cachedPrices, dexscreenerID, tokens[k].Address,
                                  ParseFloat(priceUsd).val)
    /\ cachedPrices' # cachedPrices
    /\ UNCHANGED <<pricingVars, serviceVars, globalNativePrices, phase, ncalls, callVars, ret>>

LoadOutcomes == {"ok", "wallets_failed", "no_networks", "tokens_failed"}

\* ------------------------------------------------------------ refresh
\* pairs the feed can return
FeedPairs ==
    {PairData("0xc02a", "WBTC", "4", 5), PairData("0xc02a", "usdc", "2.5", 1),
     PairData("0xc02a", "USDT", "0", Nil), PairData("0xc02a", "usdc", "-1", 1),
     PairData("0xc02a", "WBTC", "abc", 5), PairData("0xbb4c", "usdc", "2.5", 1)}

\* the lists of at most MaxPairs pairs over a set of pairs
PairLists(pairs) == UNION {[1..n -> pairs] : n \in 0..MaxPairs}

NoFeedReturn == [kind |-> "none", pairs |-> <<>>]

\* the tasks of run r that hold a slot of sem
BatchesRunning(r) ==
    Cardinality({b \in 1..Len(bpc[r]) : bpc[r][b] \in {"running", "counting"}})

\* LoadAndCacheTokenPrices up to the loop that launches the batches; `load`
\* is how the token provider answers, cfgMaxRoutines the configured limit
LoadAndCacheTokenPrices(r, load, cfgMaxRoutines) ==
    /\ refresh[r].pc = "idle"
    /\ refresh[r].count = 0
    /\ IF Len(GetAllNetworkDefinitions) = 0
       THEN /\ refresh' = [refresh EXCEPT ![r].ret = "nil", ![r].count = @ + 1]
            /\ UNCHANGED <<cachedPrices, batches, bpc, feedCalls, feedResp>>
       ELSE IF load = "tokens_failed"
       THEN /\ refresh' = [refresh EXCEPT ![r].ret = "failed to get tokens",
                                          ![r].count = @ + 1]
            /\ UNCHANGED <<cachedPrices, batches, bpc, feedCalls, feedResp>>
       ELSE LET all == BatchesOf(GetAllNetworkDefinitions,
                                 GetTokensByNetwork(GetAllNetworkDefinitions))
            IN /\ cachedPrices' = InitChainMaps(cachedPrices)
               /\ batches' = [batches EXCEPT ![r] = all]
               /\ bpc' = [bpc EXCEPT ![r] = [b \in 1..Len(all) |-> "none"]]
               /\ feedCalls' = [feedCalls EXCEPT ![r] = [b \in 1..Len(all) |-> 0]]
               /\ feedResp' = [feedResp EXCEPT ![r] = [b \in 1..Len(all) |-> NoFeedReturn]]
               /\ refresh' = [refresh EXCEPT ![r] =
                                 [pc |-> "launch", next |-> 1,
                                  configured |-> cfgMaxRoutines,
                                  limit |-> ConcurrencyLimit(cfgMaxRoutines),
                                  ret |-> "none", count |-> refresh[r].count + 1]]
    /\ UNCHANGED <<serviceVars, globalNativePrices, phase, ncalls, callVars, ret,
                   lastWrite, selection, batching>>

\* wg.Add(1); sem <- struct{}{}; go func(batch ...)
LaunchBatch(r) ==
    /\ refresh[r].pc = "launch"
    /\ refresh[r].next <= Len(batches[r])
    /\ BatchesRunning(r) < refresh[r].limit
    /\ bpc' = [bpc EXCEPT ![r][refresh[r].next] = "running"]
    /\ refresh' = [refresh EXCEPT ![r].next = @ + 1]
    /\ UNCHANGED <<serviceVars, priceVars, phase, ncalls, callVars, ret, batches,
                   feedCalls, feedResp, lastWrite, selection, batching>>

\* a batch task that calls the feed again after an error
RetryAfterFeedError(position) == "running"

\* where a batch task goes when GetTokenPairsByAddresses returned an error:
\* to failedOrMissing += len(batch), not to another call
AfterFeedError(position) == "counting"

\* the batch task whose feed call fails: nothing is stored
BatchFeedFails(r, b) ==
    /\ bpc[r][b] = "running"
    /\ feedCalls' = [feedCalls EXCEPT ![r][b] = @ + 1]
    /\ feedResp' = [feedResp EXCEPT ![r][b] = [kind |-> "error", pairs |-> <<>>]]
    /\ bpc' = [bpc EXCEPT ![r][b] = AfterFeedError(@)]
    /\ UNCHANGED <<serviceVars, priceVars, phase, ncalls, callVars, ret, refresh,
                   batches, lastWrite, selection, batching>>

\* the cache keys a batch task writes on the pairs it got
KeysStored(batch, pairs) ==
    {k \in 1..Len(batch) : FirstUsablePair(pairs, batch[k], 1) # 0}

\* lastWrite after the batch task stored its prices
Stamp(written, dexscreenerID, batch, pairs) ==
    LET new == {<<dexscreenerID, ToLower(batch[k].Address)>> : k \in KeysStored(batch, pairs)}
        tokenOf(key) == CHOOSE k \in KeysStored(batch, pairs) :
                            /\ ToLower(batch[k].Address) = key[2]
                            /\ \A j \in KeysStored(batch, pairs) :
                                  ToLower(batch[j].Address) = key[2] => j <= k
    IN [key \in DOMAIN written \cup new |->
          IF key \in new
          THEN [price |-> ParseFloat(
                              pairs[FirstUsablePair(pairs, batch[tokenOf(key)], 1)].PriceUsd).val,
                age |-> 0]
          ELSE written[key]]

\* the batch task whose feed call returns `pairs`: for every token of the
\* batch the price of its first usable pair is stored under s.mu
BatchStoresPrices(r, b, pairs) ==
    /\ bpc[r][b] = "running"
    /\ feedResp' = [feedResp EXCEPT ![r][b] = [kind |-> "pairs", pairs |-> pairs]]
    /\ cachedPrices' = StoreBatch(cachedPrices, batches[r][b].dexscreenerID,
                                  batches[r][b].tokens, pairs)
    /\ lastWrite' = Stamp(lastWrite, batches[r][b].dexscreenerID, batches[r][b].tokens,
                          pairs)
    /\ feedCalls' = [feedCalls EXCEPT ![r][b] = @ + 1]
    /\ bpc' = [bpc EXCEPT ![r][b] = "counting"]
    /\ UNCHANGED <<serviceVars, globalNativePrices, phase, ncalls, callVars, ret, refresh,
                   batches, selection, batching>>

\* the batch task updates processedSuccessfully, failedOrMissing and
\* platformsWithCachedPrices of its run, with no lock held, and ends: the
\* deferred calls give the slot of sem back
CountBatch(r, b) ==
    /\ bpc[r][b] = "counting"
    /\ bpc' = [bpc EXCEPT ![r][b] = "done"]
    /\ UNCHANGED <<serviceVars, priceVars, phase, ncalls, callVars, ret, refresh, batches,
                   feedCalls, feedResp, lastWrite, selection, batching>>

\* LoadAndCacheTokenPrices from wg.Wait() to its return
RefreshReturns(r) ==
    /\ refresh[r].pc = "launch"
    /\ refresh[r].next > Len(batches[r])
    /\ \A b \in 1..Len(batches[r]) : bpc[r][b] = "done"
    /\ refresh' = [refresh EXCEPT ![r].pc = "idle", ![r].ret = "nil"]
    /\ UNCHANGED <<serviceVars, priceVars, phase, ncalls, callVars, ret, batches, bpc,
                   feedCalls, feedResp, lastWrite, selection, batching>>

\* the clock advances by one tick
Tick ==
    /\ \E key \in DOMAIN lastWrite : lastWrite[key].age <= TTLTicks
    /\ lastWrite' = [key \in DOMAIN lastWrite |->
                       [lastWrite[key] EXCEPT !.age = IF @ > TTLTicks THEN @ ELSE @ + 1]]
    /\ UNCHANGED <<serviceVars, priceVars, phase, ncalls, callVars, ret, refresh, batches,
                   bpc, feedCalls, feedResp, selection, batching>>

\* ------------------------------------------------------------ global slot
\* symbols and prices a caller hands to TrySetGlobalNativeTokenPrice
SlotSymbols == {"eth", "bnb", "matic"}
SlotPrices == {0 - 100, 0, 250, 400}

\* one call of TrySetGlobalNativeTokenPrice
SetGlobalNativePrice(nativeSymbolLower, price) ==
    /\ globalNativePrices' =
          TrySetGlobalNativeTokenPrice(globalNativePrices, nativeSymbolLower, price)
    /\ UNCHANGED <<pricingVars, serviceVars, cachedPrices, phase, ncalls, callVars, ret>>

\* ------------------------------------------------------------ selection
\* pairs handed to selectBestPriceFromPairs
SelectPairs ==
    {PairData(base, quote, priceUsd, liquidityUsd) :
        base \in {"0xc02a", "0xbb4c"}, quote \in {"usdc", "DAI", "WBTC"},
        priceUsd \in {"2.5", "4", "0", ""}, liquidityUsd \in {Nil, 1, 5}}

\* one application of selectBestPriceFromPairs to the arguments at hand
SelectBestPrice ==
    /\ ~selection.done
    /\ selection' = [selection EXCEPT
                        !.done = TRUE,
                        !.priceUsd = selectBestPriceFromPairs(selection.pairs,
                                                              selection.baseTokenAddress)]
    /\ UNCHANGED <<feedVars, batching, serviceVars, priceVars, phase, ncalls, callVars, ret>>

AddressInputs == {"0xw1", "0xW2", "0xdead"}

Next ==
    \/ \E names \in SelectorLists, load \in LoadOutcomes :
            FetchAllWalletsPortfolio(names, load)
    \/ \E a \in AddressInputs, names \in SelectorLists, load \in LoadOutcomes :
            FetchSingleWalletPortfolioByAddress(a, names, load)
    \/ \E i \in WalletIdx : SpawnNetworkTask(i)
    \/ \E t \in Tasks : GetClientFails(t[1], t[2])
    \/ \E t \in Tasks : CallGateway(t[1], t[2])
    \/ \E t \in Tasks : FinishNetworkTask(t[1], t[2])
    \/ \E i \in WalletIdx : JoinNetworkTasks(i)
    \/ \E i \in WalletIdx : MarkWalletFailed(i)
    \/ \E i \in WalletIdx : AppendWalletErrors(i)
    \/ FetchAllReturns
    \/ FetchOneReturns

Spec == Init /\ [][Next]_vars

\* the steps of the goroutines of a call over all wallets and of its return
CallSteps ==
    \/ \E i \in WalletIdx : SpawnNetworkTask(i)
    \/ \E t \in Tasks : GetClientFails(t[1], t[2])
    \/ \E t \in Tasks : CallGateway(t[1], t[2])
    \/ \E t \in Tasks : FinishNetworkTask(t[1], t[2])
    \/ \E i \in WalletIdx : JoinNetworkTasks(i)
    \/ \E i \in WalletIdx : MarkWalletFailed(i)
    \/ \E i \in WalletIdx : AppendWalletErrors(i)
    \/ FetchAllReturns

\* calls over all wallets, on a cache that holds a price, whose goroutines
\* are scheduled as long as one of them can run, and whose provider and
\* gateway calls return
InitLive ==
    /\ Init
    /\ cachedPrices = StorePrice(InitChainMaps(<< >>), Ethereum.DEXScreenerChainID,
                                 TokenWETH.Address, ParseFloat("2.5").val)
NextLive ==
    \/ \E names \in SelectorLists, load \in LoadOutcomes :
            FetchAllWalletsPortfolio(names, load)
    \/ CallSteps
SpecLive == InitLive /\ [][NextLive]_vars /\ WF_vars(CallSteps)

\* one call after another on one network: a process that serves one call
\* more than MaxCalls
NextAgain ==
    \/ FetchAllWalletsPortfolioWithin(MaxCalls + 1, <<"Ethereum">>, "ok")
    \/ \E a \in AddressInputs :
            FetchSingleWalletPortfolioByAddressWithin(MaxCalls + 1, a, <<"Ethereum">>, "ok")
    \/ CallSteps
    \/ FetchOneReturns
SpecAgain == Init /\ [][NextAgain]_vars

\* calls whose context the caller may cancel
NextCancel == Next \/ CancelContext
SpecCancel == Init /\ [][NextCancel]_vars

\* calls served while refreshes run in the background
Refresh ==
    \/ RefreshBegins
    \/ \E n \in NetIdx, k \in 1..2, p \in PriceStrings : RefreshStoresPrice(n, k, p)
NextBackground == Next \/ Refresh
SpecBackground == Init /\ [][NextBackground]_vars

\* calls over all wallets on Ethereum, served on an empty cache while
\* refreshes run in the background, the goroutines of other wallets and of
\* the refresh running between a sub-task's reading of the symbol-keyed slot
\* and its writing of it
InitRace == Init /\ cachedPrices = << >>
NextRace ==
    \/ FetchAllWalletsPortfolio(<<"Ethereum">>, "ok")
    \/ \E i \in WalletIdx : SpawnNetworkTask(i)
    \/ \E t \in Tasks : GetClientFails(t[1], t[2])
    \/ \E t \in Tasks : CallGateway(t[1], t[2])
    \/ \E t \in Tasks : ReadSlotMiss(t[1], t[2])
    \/ \E t \in Tasks : FinishAfterMiss(t[1], t[2])
    \/ \E t \in Tasks : FinishUnderMutex(t[1], t[2])
    \/ \E i \in WalletIdx : JoinNetworkTasks(i)
    \/ \E i \in WalletIdx : MarkWalletFailed(i)
    \/ \E i \in WalletIdx : AppendWalletErrors(i)
    \/ FetchAllReturns
    \/ RefreshBegins
    \/ \E priceUsd \in {"2.5", "4"} : RefreshStoresPrice(1, 1, priceUsd)
SpecRace == InitRace /\ [][NextRace]_vars

\* the price service alone: refreshes while the clock runs
LoadTokenOutcomes == {"ok", "tokens_failed"}
NextRefresh ==
    \/ \E load \in LoadTokenOutcomes, m \in 0..MaxRoutinesCfg :
            LoadAndCacheTokenPrices(1, load, m)
    \/ LaunchBatch(1)
    \/ \E b \in 1..Len(batches[1]) : BatchFeedFails(1, b)
    \/ \E b \in 1..Len(batches[1]), pairs \in PairLists(FeedPairs) :
            BatchStoresPrices(1, b, pairs)
    \/ \E b \in 1..Len(batches[1]) : CountBatch(1, b)
    \/ RefreshReturns(1)
    \/ Tick
InitRefresh == Init /\ cachedPrices = << >>
SpecRefresh == InitRefresh /\ [][NextRefresh]_vars

\* what the feed answers to the callers that refresh at the same time
FewAnswers ==
    {<<>>, <<PairData("0xc02a", "WBTC", "4", 5)>>, <<PairData("0xc02a", "usdc", "2.5", 1)>>,
     <<PairData("0xbb4c", "usdc", "2.5", 1)>>}

\* the steps of the batch tasks of every run
BatchSteps ==
    \/ \E r \in Runs : LaunchBatch(r)
    \/ \E r \in Runs : \E b \in 1..Len(batches[r]) : BatchFeedFails(r, b)
    \/ \E r \in Runs : \E b \in 1..Len(batches[r]), pairs \in FewAnswers :
            BatchStoresPrices(r, b, pairs)
    \/ \E r \in Runs : \E b \in 1..Len(batches[r]) : CountBatch(r, b)
    \/ \E r \in Runs : RefreshReturns(r)

\* the price service alone: several callers refresh at the same time
NextRefreshes ==
    \/ \E r \in Runs, load \in LoadTokenOutcomes, m \in 0..MaxRoutinesCfg :
            LoadAndCacheTokenPrices(r, load, m)
    \/ BatchSteps
SpecRefreshes == InitRefresh /\ [][NextRefreshes]_vars

\* run r has returned
RunReturned(r) == refresh[r].pc = "idle" /\ refresh[r].count > 0

\* the price service alone: one caller refreshes again and again, each run
\* starting when the run before has returned
NextTwice ==
    \/ \E r \in Runs, load \in LoadTokenOutcomes, m \in 0..MaxRoutinesCfg :
            /\ \A q \in 1..(r - 1) : RunReturned(q)
            /\ LoadAndCacheTokenPrices(r, load, m)
    \/ BatchSteps
SpecTwice == InitRefresh /\ [][NextTwice]_vars

\* selectBestPriceFromPairs applied to every bounded list of pairs
InitSelect ==
    /\ InitService
    /\ cachedPrices = << >>
    /\ selection \in {[done |-> FALSE, pairs |-> pairs,
                        baseTokenAddress |-> TokenWETH.Address, priceUsd |-> ""] :
                       pairs \in PairLists(SelectPairs)}
    /\ batching = NoBatching
NextSelect == SelectBestPrice
SpecSelect == InitSelect /\ [][NextSelect]_vars

\* token lists handed to batchTokenInfos: every list of at most MaxListLen
\* tokens, and one list a token longer than the default batch size
ManyTokens == [k \in 1..(DefaultBatchSize + 1) |-> [TokenWETH EXCEPT !.Decimals = k]]
TokenLists ==
    UNION {[1..n -> {TokenWETH, TokenStray}] : n \in 0..MaxListLen} \cup {ManyTokens}

\* one application of batchTokenInfos to the arguments at hand
BatchTokens ==
    /\ ~batching.done
    /\ batching' = [batching EXCEPT
                       !.done = TRUE,
                       !.batches = batchTokenInfos(batching.tokens, batching.batchSize)]
    /\ UNCHANGED <<feedVars, selection, serviceVars, priceVars, phase, ncalls, callVars, ret>>

\* batchTokenInfos applied to every bounded token list and configured size
InitBatch ==
    /\ InitService
    /\ cachedPrices = << >>
    /\ selection = NoSelection
    /\ batching \in {[done |-> FALSE, tokens |-> tokens, batchSize |-> size, batches |-> <<>>] :
                      tokens \in TokenLists, size \in (0 - 1)..MaxBatchSizeCfg}
NextBatch == BatchTokens
SpecBatch == InitBatch /\ [][NextBatch]_vars

\* the symbol-keyed slot under arbitrary calls of its setter
NextSlot == \E symbol \in SlotSymbols, price \in SlotPrices : SetGlobalNativePrice(symbol, price)
SpecSlot == Init /\ [][NextSlot]_vars

\* single-wallet calls on a gateway whose decoding may leave an item with
\* neither an error nor a balance
FinishOnDecoded(i, n) ==
    /\ tpc[<<i, n>>] = "calling"
    /\ \E outcomes \in DecodedOutcomes(activeNetworkDefinitions[n], RequestsOf(i, n)) :
          FinishNetworkTaskOn(i, n, ReturnOn(RequestsOf(i, n), outcomes))
NextDecode ==
    \/ \E a \in AddressInputs : FetchSingleWalletPortfolioByAddress(a, <<>>, "ok")
    \/ \E i \in WalletIdx : SpawnNetworkTask(i)
    \/ \E t \in Tasks : CallGateway(t[1], t[2])
    \/ \E t \in Tasks : FinishOnDecoded(t[1], t[2])
    \/ \E i \in WalletIdx : JoinNetworkTasks(i)
    \/ \E i \in WalletIdx : MarkWalletFailed(i)
    \/ FetchOneReturns
SpecDecode == Init /\ [][NextDecode]_vars

\* ------------------------------------------------------------ properties
\* the networks of the call in progress (or of the last call)
ActiveIdx == 1..Len(activeNetworkDefinitions)

AddressOf(i) == GetWallets[i].Address

\* the entries of a returned list that carry the address of wallet i
EntriesOf(portfolios, i) ==
    {k \in 1..Len(portfolios) : portfolios[k].WalletAddress = AddressOf(i)}

\* the gateway answered sub-task (i, n), and neither the batch nor an item failed
TaskClean(i, n) ==
    /\ resp[<<i, n>>].kind = "returned"
    /\ ~resp[<<i, n>>].err
    /\ \A k \in 1..Len(resp[<<i, n>>].results) : resp[<<i, n>>].results[k].Error = NoError

WalletClean(i) == \A n \in ActiveIdx : TaskClean(i, n)

\* the lines of a token list: what is held, without prices
LinesOf(tokens) ==
    [k \in 1..Len(tokens) |->
        [TokenAddress |-> tokens[k].TokenAddress, TokenSymbol |-> tokens[k].TokenSymbol,
         FormattedBalance |-> tokens[k].FormattedBalance]]

\* the lines wallet i holds on network n according to the chain: the requested
\* assets with a non-zero balance, in request order
HeldLines(i, n) ==
    LET nd == activeNetworkDefinitions[n]
        held == SelectSeq(RequestsOf(i, n),
                    LAMBDA rq : BalanceOnChain(rq.WalletAddress, nd.ChainID, rq.TokenAddress) # 0)
    IN [k \in 1..Len(held) |->
          [TokenAddress |-> held[k].TokenAddress, TokenSymbol |-> held[k].TokenSymbol,
           FormattedBalance |->
              FormatBigInt(BalanceOnChain(held[k].WalletAddress, nd.ChainID,
                                          held[k].TokenAddress),
                           held[k].TokenDecimals).str]]

\* portfolio p shows all of network n that wallet i holds there
NetworkComplete(p, i, n) ==
    LET name == activeNetworkDefinitions[n].Name
    IN IF Len(HeldLines(i, n)) = 0
       THEN name \notin DOMAIN p.BalancesByNetwork
       ELSE /\ name \in DOMAIN p.BalancesByNetwork
            /\ LinesOf(p.BalancesByNetwork[name].Tokens) = HeldLines(i, n)

\* C1: a FetchAll that loaded its catalogs and resolved at least one network
\* returns exactly one portfolio entry per wallet of the source, whatever
\* happened to the wallet's sub-tasks.
OnePortfolioPerWallet ==
    [][FetchAllReturns =>
        /\ Len(ret'.portfolios) = Len(GetWallets)
        /\ \A i \in WalletIdx : Cardinality(EntriesOf(ret'.portfolios, i)) = 1]_vars

\* a FetchAll over more than one wallet has returned, and every sub-task of
\* one wallet failed: its entry is there, with an empty network map
OnePortfolioPerWalletReached ==
    /\ phase = "idle" /\ ret.kind = "all" /\ Len(GetWallets) > 1
    /\ Len(ret.portfolios) = Len(GetWallets)
    /\ \E i \in WalletIdx :
        /\ \A n \in ActiveIdx : resp[<<i, n>>].err
        /\ Len(activeNetworkDefinitions) > 1
        /\ \E k \in EntriesOf(ret.portfolios, i) :
              DOMAIN ret.portfolios[k].BalancesByNetwork = {}

\* the sum of the network totals of a network map
SumOfNetworks(balancesByNetwork) ==
    LET names == SeqOfSet(DOMAIN balancesByNetwork)
    IN SumSeq([k \in 1..Len(names) |-> balancesByNetwork[names[k]].TotalValueUSD])

\* the sum of the values of a token list
SumOfTokens(tokens) == SumSeq([k \in 1..Len(tokens) |-> tokens[k].ValueUSD])

TotalsConsistent(p) ==
    /\ p.TotalValueUSD = SumOfNetworks(p.BalancesByNetwork)
    /\ \A name \in DOMAIN p.BalancesByNetwork :
          p.BalancesByNetwork[name].TotalValueUSD =
              SumOfTokens(p.BalancesByNetwork[name].Tokens)

\* C2: in every returned portfolio the wallet total is the sum of the totals
\* of the networks present, and each network total is the sum of the values
\* of its tokens, whatever the order in which the sub-tasks finished.
TotalsAreSums ==
    \A k \in 1..Len(ret.portfolios) : TotalsConsistent(ret.portfolios[k])

\* a returned list holds a portfolio with two valued networks and a portfolio
\* with a network of two valued tokens
TotalsAreSumsReached ==
    /\ \E k \in 1..Len(ret.portfolios) :
        LET nets == ret.portfolios[k].BalancesByNetwork
        IN /\ Cardinality(DOMAIN nets) = 2
           /\ \A name \in DOMAIN nets : nets[name].TotalValueUSD > 0
    /\ \E k \in 1..Len(ret.portfolios) :
        \E name \in DOMAIN ret.portfolios[k].BalancesByNetwork :
            LET tokens == ret.portfolios[k].BalancesByNetwork[name].Tokens
            IN Len(tokens) = 2 /\ tokens[1].ValueUSD > 0 /\ tokens[2].ValueUSD > 0

\* wallet f is the only wallet of the call for which anything failed
OnlyFailing(f) == ~WalletClean(f) /\ \A i \in WalletIdx \ {f} : WalletClean(i)

\* C3: when the first call on a service is a FetchAll in which the gateway
\* fails for exactly one wallet, every other wallet's portfolio is returned
\* with all it holds on every network, and GetFailedWallets is exactly the
\* failing wallet's address.
OneFailureLeavesOthersComplete ==
    [][FetchAllReturns /\ ncalls = 1 =>
        \A f \in WalletIdx :
            OnlyFailing(f) =>
                /\ \A i \in WalletIdx \ {f} :
                      /\ EntriesOf(ret'.portfolios, i) # {}
                      /\ \A k \in EntriesOf(ret'.portfolios, i), n \in ActiveIdx :
                            NetworkComplete(ret'.portfolios[k], i, n)
                /\ GetFailedWallets' = {AddressOf(f)}]_vars

\* the first call was a FetchAll over two networks that has returned; for one
\* wallet a batch failed, the other wallet, which holds something, is clean
OneFailureLeavesOthersCompleteReached ==
    /\ phase = "idle" /\ ncalls = 1 /\ ret.kind = "all"
    /\ Len(ret.portfolios) = Len(GetWallets) /\ Len(activeNetworkDefinitions) = 2
    /\ \E f \in WalletIdx :
        /\ OnlyFailing(f)
        /\ \E n \in ActiveIdx : resp[<<f, n>>].kind = "returned" /\ resp[<<f, n>>].err
        /\ GetFailedWallets = {AddressOf(f)}
        /\ \E i \in WalletIdx \ {f}, k \in 1..Len(ret.portfolios) :
              /\ ret.portfolios[k].WalletAddress = AddressOf(i)
              /\ DOMAIN ret.portfolios[k].BalancesByNetwork # {}

\* the sub-tasks whose GetBalances call is in progress
CallsInProgress == {t \in Tasks : tpc[t] = "calling"}

\* C4: at no instant are more gateway balance calls in progress than the
\* concurrency limit, also when the wallets outnumber the limit.
CallsWithinLimit == Cardinality(CallsInProgress) <= maxConcurrentRoutines

\* more wallets than the limit: as many calls as the limit allows are in
\* progress, and another wallet waits for a slot
CallsWithinLimitReached ==
    /\ phase = "all"
    /\ Len(GetWallets) > maxConcurrentRoutines
    /\ Cardinality(CallsInProgress) = maxConcurrentRoutines
    /\ \E i \in WalletIdx :
        /\ wpc[i] = "loop" /\ wNext[i] <= Len(activeNetworkDefinitions)
        /\ \A n \in ActiveIdx : tpc[<<i, n>>] # "calling"

\* C5: once the context of the call is cancelled, no new gateway call is
\* started.
NoGatewayCallAfterCancel ==
    [][ctxDone => \A t \in Tasks : gatewayCalls'[t] = gatewayCalls[t]]_vars

\* the errors of wallet i that are scoped to network nd as a whole
NetworkScopedErrors(i, nd) ==
    {k \in 1..Len(singleWalletErrs[i]) :
        /\ singleWalletErrs[i][k].WalletAddress = AddressOf(i)
        /\ singleWalletErrs[i][k].NetworkName = nd.Name
        /\ singleWalletErrs[i][k].TokenSymbol = ""
        /\ singleWalletErrs[i][k].TokenAddress = ""
        /\ ~singleWalletErrs[i][k].IsNative}

\* C6: for each (wallet, network) pair of a call GetBalances is invoked at
\* most once, exactly once when a client was obtained, whether or not the
\* call fails; a failed call leaves one network-scoped error and the
\* sub-task ends without another call.
OneGatewayCallPerPair ==
    \A t \in Tasks :
        /\ gatewayCalls[t] <= 1
        /\ tpc[t] = "calling" => gatewayCalls[t] = 1
        /\ tpc[t] = "done" =>
            /\ gatewayCalls[t] = IF resp[t].kind = "returned" THEN 1 ELSE 0
            /\ resp[t].kind = "returned" /\ resp[t].err =>
                  Cardinality(NetworkScopedErrors(t[1], activeNetworkDefinitions[t[2]])) = 1

\* a call has returned in which a sub-task's one gateway call failed
OneGatewayCallPerPairReached ==
    /\ phase = "idle" /\ ret.kind \in {"all", "one"}
    /\ \E t \in Tasks :
        /\ tpc[t] = "done" /\ resp[t].kind = "returned" /\ resp[t].err
        /\ gatewayCalls[t] = 1

\* the catalog entry with a network name
NetworkNamed(name) ==
    CHOOSE nd \in Range(GetAllNetworkDefinitions) : nd.Name = name

ZeroStrings == {[int |-> 0, frac |-> <<>>], [int |-> 0, frac |-> <<0>>]}

\* C7: no TokenDetail of a returned portfolio stands for an asset, token or
\* native, whose raw balance is zero or absent.
NoZeroBalanceReturned ==
    \A k \in 1..Len(ret.portfolios) :
        \A name \in DOMAIN ret.portfolios[k].BalancesByNetwork :
            LET tokens == ret.portfolios[k].BalancesByNetwork[name].Tokens
            IN \A j \in 1..Len(tokens) :
                /\ BalanceOnChain(ret.portfolios[k].WalletAddress,
                                  NetworkNamed(name).ChainID,
                                  tokens[j].TokenAddress) # 0
                /\ tokens[j].FormattedBalance \notin ZeroStrings

\* a FetchAll has returned portfolios after the gateway reported, without
\* error, a zero native balance and a zero token balance
NoZeroBalanceReturnedReached ==
    /\ phase = "idle" /\ ret.kind = "all" /\ Len(ret.portfolios) > 0
    /\ \E t \in Tasks : \E j \in 1..Len(resp[t].results) :
        /\ resp[t].results[j].IsNative
        /\ resp[t].results[j].Error = NoError /\ resp[t].results[j].Balance = 0
    /\ \E t \in Tasks : \E j \in 1..Len(resp[t].results) :
        /\ ~resp[t].results[j].IsNative
        /\ resp[t].results[j].Error = NoError /\ resp[t].results[j].Balance = 0

\* the token details of wallet i on network nd with a token address
DetailsOf(p, nd, tokenAddress) ==
    IF nd.Name \in DOMAIN p.BalancesByNetwork
    THEN {j \in 1..Len(p.BalancesByNetwork[nd.Name].Tokens) :
            p.BalancesByNetwork[nd.Name].Tokens[j].TokenAddress = tokenAddress}
    ELSE {}

\* sub-task t ends in this step
TaskEnds(t) == tpc[t] = "calling" /\ tpc'[t] = "done"

\* C8: when a sub-task ends, every token result with a non-zero balance has
\* its TokenDetail in the portfolio; the detail's ValueUSD is positive if the
\* cache held a positive price for the token's price-feed chain and address,
\* and zero if the cache held no price for it.
TokenValuedByCachedPrice ==
    [][\A t \in Tasks : TaskEnds(t) =>
        LET nd == activeNetworkDefinitions[t[2]]
            cached(a) == GetPriceUSD(cachedPrices, nd.DEXScreenerChainID, a)
        IN \A j \in 1..Len(resp'[t].results) :
            LET item == resp'[t].results[j]
            IN (~item.IsNative /\ item.Error = NoError /\ item.Balance > 0) =>
                /\ Cardinality(DetailsOf(portfolio'[t[1]], nd, item.TokenAddress)) = 1
                /\ \A d \in DetailsOf(portfolio'[t[1]], nd, item.TokenAddress) :
                    LET td == portfolio'[t[1]].BalancesByNetwork[nd.Name].Tokens[d]
                    IN /\ cached(item.TokenAddress).found
                          /\ cached(item.TokenAddress).price > 0 => td.ValueUSD > 0
                       /\ ~cached(item.TokenAddress).found => td.ValueUSD = 0]_vars

\* a sub-task has ended with a token of non-zero balance and a positive
\* cached price, and the token's detail has a positive value
TokenValuedByCachedPriceReached ==
    \E t \in Tasks :
        LET nd == activeNetworkDefinitions[t[2]]
        IN /\ tpc[t] = "done"
           /\ \E j \in 1..Len(resp[t].results) :
                LET item == resp[t].results[j]
                IN /\ ~item.IsNative /\ item.Error = NoError /\ item.Balance > 0
                   /\ GetPriceUSD(cachedPrices, nd.DEXScreenerChainID, item.TokenAddress).price > 0
                   /\ \E d \in DetailsOf(portfolio[t[1]], nd, item.TokenAddress) :
                        portfolio[t[1]].BalancesByNetwork[nd.Name].Tokens[d].ValueUSD > 0

\* the wallets of the call that returns
Participants == {i \in WalletIdx : wpc[i] = "done"}

\* every error of wallet i is in a returned error list
ErrorsReturned(errors, i) ==
    \A k \in 1..Len(singleWalletErrs[i]) :
        \E j \in 1..Len(errors) : errors[j] = singleWalletErrs[i][k]

\* C9: when a call returns, a wallet's portfolio holds everything of each
\* network that succeeded, also when other networks of the wallet failed; a
\* wallet with an error has its errors in the returned list and its address in
\* the failed-wallet set; and no step adds a wallet without an error to the set.
PartialFailureKeepsSuccesses ==
    [][/\ (FetchAllReturns \/ FetchOneReturns) =>
            \A i \in Participants :
                /\ \A k \in EntriesOf(ret'.portfolios, i), n \in ActiveIdx :
                      TaskClean(i, n) => NetworkComplete(ret'.portfolios[k], i, n)
                /\ EntriesOf(ret'.portfolios, i) # {}
                /\ Len(singleWalletErrs[i]) > 0 =>
                      /\ ErrorsReturned(ret'.errors, i)
                      /\ AddressOf(i) \in failedWallets'
       /\ \A i \in WalletIdx :
            AddressOf(i) \in failedWallets' \ failedWallets => Len(singleWalletErrs[i]) > 0]_vars

\* a call has returned a wallet of which one network failed and another, on
\* which it holds something, succeeded; a wallet without error is not in the set
PartialFailureKeepsSuccessesReached ==
    /\ phase = "idle" /\ ret.kind = "all" /\ Len(ret.portfolios) = Len(GetWallets)
    /\ \E i \in WalletIdx :
        /\ \E n \in ActiveIdx : resp[<<i, n>>].err
        /\ \E n \in ActiveIdx : TaskClean(i, n) /\ Len(HeldLines(i, n)) > 0
        /\ AddressOf(i) \in failedWallets
        /\ \E k \in EntriesOf(ret.portfolios, i) :
              DOMAIN ret.portfolios[k].BalancesByNetwork # {}
    /\ \E i \in WalletIdx : WalletClean(i) /\ AddressOf(i) \notin failedWallets

\* the errors of wallet i that name the asset of a result item on network nd
ItemErrors(i, nd, item) ==
    {k \in 1..Len(singleWalletErrs[i]) :
        /\ singleWalletErrs[i][k].WalletAddress = item.WalletAddress
        /\ singleWalletErrs[i][k].NetworkName = nd.Name
        /\ singleWalletErrs[i][k].TokenSymbol = item.TokenSymbol
        /\ singleWalletErrs[i][k].TokenAddress = item.TokenAddress
        /\ singleWalletErrs[i][k].IsNative = item.IsNative}

\* the lines the results of a batch give: the items without error and with a
\* non-zero balance, in result order
LinesOfResults(batchResults) ==
    LinesOf(SelectSeq(batchResults,
                LAMBDA item : item.Error = NoError /\ item.Balance # Nil /\ item.Balance # 0))

\* C10: after a batch that succeeded as a whole, each result item with an
\* error has exactly one PortfolioError naming its wallet, network and token
\* and no TokenDetail, and the network's token list is what the items without
\* error give, as if the failed items had not been in the batch.
ItemErrorIsLocal ==
    \A t \in Tasks :
        (tpc[t] = "done" /\ resp[t].kind = "returned" /\ ~resp[t].err) =>
            LET nd == activeNetworkDefinitions[t[2]]
                p == portfolio[t[1]]
                shown == IF nd.Name \in DOMAIN p.BalancesByNetwork
                         THEN LinesOf(p.BalancesByNetwork[nd.Name].Tokens) ELSE <<>>
            IN /\ \A j \in 1..Len(resp[t].results) :
                    resp[t].results[j].Error # NoError =>
                        /\ Cardinality(ItemErrors(t[1], nd, resp[t].results[j])) = 1
                        /\ DetailsOf(p, nd, resp[t].results[j].TokenAddress) = {}
               /\ shown = LinesOfResults(resp[t].results)

\* a sub-task has ended whose batch carried an item with an error and a
\* sibling with a non-zero balance, which the portfolio shows
ItemErrorIsLocalReached ==
    \E t \in Tasks :
        /\ tpc[t] = "done" /\ resp[t].kind = "returned" /\ ~resp[t].err
        /\ \E j \in 1..Len(resp[t].results) : resp[t].results[j].Error # NoError
        /\ Len(LinesOfResults(resp[t].results)) > 0
        /\ activeNetworkDefinitions[t[2]].Name \in DOMAIN portfolio[t[1]].BalancesByNetwork

\* ---------------------------------------------------------------------------
\* Network selection and the single-wallet entry point

\* the selector denotes the catalog network: its name, its short name or its
\* chain id equals the selector, ignoring case
SelectorMatches(selector, netDef) ==
    \/ EqualFold(selector, netDef.Name)
    \/ EqualFold(selector, netDef.Identifier)
    \/ ToLower(selector) = FormatUint(netDef.ChainID)

IsAllSentinel(trackedNetworkNames) ==
    Len(trackedNetworkNames) = 1 /\ ToLower(trackedNetworkNames[1]) = "all"

Unresolved(selector) ==
    \A k \in 1..Len(GetAllNetworkDefinitions) :
        ~SelectorMatches(selector, GetAllNetworkDefinitions[k])

SomeUnresolved(trackedNetworkNames) ==
    /\ ~IsAllSentinel(trackedNetworkNames)
    /\ \E k \in 1..Len(trackedNetworkNames) : Unresolved(trackedNetworkNames[k])

\* the catalog networks a selector list denotes
SelectedNetworks(trackedNetworkNames) ==
    IF Len(trackedNetworkNames) = 0 \/ IsAllSentinel(trackedNetworkNames)
    THEN Range(GetAllNetworkDefinitions)
    ELSE {netDef \in Range(GetAllNetworkDefinitions) :
            \E k \in 1..Len(trackedNetworkNames) :
                SelectorMatches(trackedNetworkNames[k], netDef)}

\* the call ended at its entry with an error and without any portfolio
RejectedAtEntry ==
    /\ phase' = "idle"
    /\ ret'.portfolios = <<>>
    /\ (ret'.err # NoError \/ Len(ret'.errors) > 0)
    /\ gatewayCalls' = gatewayCalls

\* C11: a call whose selector list holds a selector that names no catalog
\* network, or whose selection is empty, ends at once with an error: no
\* portfolio is returned and no gateway call is made, whatever the other
\* selectors of the list are.
UnresolvedSelectorFailsCall ==
    [][\A names \in SelectorLists, load \in LoadOutcomes :
          ((\/ FetchAllWalletsPortfolio(names, load)
            \/ \E a \in AddressInputs :
                  FetchSingleWalletPortfolioByAddress(a, names, load))
           /\ SomeUnresolved(names))
          => RejectedAtEntry]_vars

\* C12: an empty selector list and the single selector "all" select the whole
\* catalog; any other list selects exactly the networks whose name or chain
\* id equals one of its selectors ignoring case, so a call that starts works
\* on exactly those networks.
SelectionIsByNameOrChainID ==
    [][\A names \in SelectorLists :
          (FetchAllWalletsPortfolio(names, "ok") /\ ~SomeUnresolved(names))
          => /\ phase' = "all"
             /\ Range(activeNetworkDefinitions') = SelectedNetworks(names)]_vars

\* the address matches no wallet line, ignoring case
UnknownAddress(address) ==
    \A k \in 1..Len(GetWallets) : ToLower(GetWallets[k].Address) # ToLower(address)

\* C13: the single-wallet call for an address that matches no wallet line
\* returns the not-found error and no portfolio, starts no network task, makes
\* no gateway call and leaves the failed-wallet set as it was.
UnknownAddressNotFound ==
    [][\A a \in AddressInputs, names \in SelectorLists, load \in LoadOutcomes :
          (FetchSingleWalletPortfolioByAddress(a, names, load) /\ UnknownAddress(a))
          => /\ ret'.err = "wallet not found"
             /\ ret'.portfolios = <<>>
             /\ phase' = "idle"
             /\ gatewayCalls' = gatewayCalls
             /\ failedWallets' = failedWallets]_vars

UnknownAddressNotFoundReached ==
    /\ phase = "idle"
    /\ ret.kind = "one"
    /\ UnknownAddress(ret.address)
    /\ ret.err = "wallet not found"
    /\ ret.portfolios = <<>>
    /\ \A t \in Tasks : gatewayCalls[t] = 0

\* ---------------------------------------------------------------------------
\* The single-wallet call against the all-wallets call

\* the orders in which the network tasks of one wallet can finish
FinishOrders ==
    {order \in [ActiveIdx -> ActiveIdx] : \A a, b \in ActiveIdx : order[a] = order[b] => a = b}

\* fetchSingleWalletPortfolio run for wallet i alone, its network tasks
\* finishing in the given order on the recorded gateway returns, the
\* symbol-keyed slot starting as gp
RECURSIVE RunAlone(_, _, _, _, _)
RunAlone(i, order, k, acc, gp) ==
    IF k > Len(activeNetworkDefinitions) THEN acc
    ELSE LET n == order[k]
             nd == activeNetworkDefinitions[n]
             r == resp[<<i, n>>]
         IN IF r.kind = "no_client"
            THEN RunAlone(i, order, k + 1,
                          [acc EXCEPT !.errors = @ \cup
                              {PortfolioError(GetWallets[i].Address, nd, "", "", FALSE,
                                              "Failed to get client")}],
                          gp)
            ELSE LET fetched == FetchBalancesForNetwork(GetWallets[i], nd, r)
                     priced == PriceBalances(fetched.balances, nd, cachedPrices, gp)
                     included == Len(fetched.balances) > 0 /\ Len(priced.details) > 0
                 IN RunAlone(i, order, k + 1,
                        [byNetwork |-> IF included
                                       THEN PutNetwork(acc.byNetwork, nd.Name,
                                               [ChainID |-> FormatUint(nd.ChainID),
                                                Tokens |-> priced.details,
                                                TotalValueUSD |-> priced.total])
                                       ELSE acc.byNetwork,
                         total |-> IF included THEN AddNetworkTotal(acc.total, priced)
                                   ELSE acc.total,
                         errors |-> acc.errors \cup Range(fetched.errors)],
                        priced.gp)

\* what the single-wallet call returns for wallet i in that order
AloneResult(i, order) ==
    LET run == RunAlone(i, order, 1, [byNetwork |-> << >>, total |-> 0, errors |-> {}], << >>)
    IN [portfolio |-> [WalletAddress |-> GetWallets[i].Address,
                       BalancesByNetwork |-> run.byNetwork,
                       TotalValueUSD |-> run.total],
        errors |-> run.errors]

\* the all-wallets call returned for wallet i what the single-wallet call
\* returns for it in some order of its network tasks
SameAsAlone(i) ==
    \E order \in FinishOrders :
        /\ \E k \in 1..Len(results) : results[k] = AloneResult(i, order).portfolio
        /\ {e \in Range(allPortfolioErrors) : e.WalletAddress = GetWallets[i].Address}
             = AloneResult(i, order).errors

CallFailed(r) == r.err # NoError \/ Len(r.errors) > 0

\* C14: on the same selection, cached prices and gateway returns the
\* all-wallets call gives every wallet the portfolio and the errors that the
\* single-wallet call gives it, and a call that ends at its entry fails in
\* the one exactly when it fails in the other.
SingleWalletCallAgrees ==
    [][/\ \A names \in SelectorLists, load \in LoadOutcomes :
             (FetchAllWalletsPortfolio(names, load) /\ phase' = "idle")
             => \A i \in WalletIdx :
                   CallFailed(ret') <=>
                   ENABLED (/\ FetchSingleWalletPortfolioByAddress(
                                   GetWallets[i].Address, names, load)
                            /\ phase' = "idle"
                            /\ ret'.err # NoError)
       /\ (FetchAllReturns /\ ncalls = 1) => \A i \in WalletIdx : SameAsAlone(i)]_vars

\* ---------------------------------------------------------------------------
\* The price refresh and the selection of a price

\* the pair is about the token and carries a price
Eligible(pair, baseTokenAddress) ==
    /\ ToLower(pair.BaseToken.Address) = ToLower(baseTokenAddress)
    /\ pair.PriceUsd # ""
    /\ pair.PriceUsd # "0"

QuotedInStablecoin(pair) ==
    \E symbol \in {"USDC", "USDT", "DAI"} : EqualFold(pair.QuoteToken.Symbol, symbol)

\* C15: when a batch task has its pairs, every token of the batch ends with
\* the price the selection picks among the pairs of that token, and a token
\* for which the selection picks nothing keeps the entry it had.
RefreshStoresSelectedPrice ==
    [][\A b \in 1..Len(batches[1]) :
          BatchStoresPrices(1, b, feedResp'[1][b].pairs)
          => \A k \in 1..Len(batches[1][b].tokens) :
                LET tokenInfo == batches[1][b].tokens[k]
                    picked == selectBestPriceFromPairs(feedResp'[1][b].pairs,
                                                       tokenInfo.Address)
                    before == GetPriceUSD(cachedPrices, batches[1][b].dexscreenerID,
                                          tokenInfo.Address)
                    after == GetPriceUSD(cachedPrices', batches[1][b].dexscreenerID,
                                         tokenInfo.Address)
                IN IF picked # "" /\ ~ParseFloat(picked).err
                   THEN after.found /\ after.price = ParseFloat(picked).val
                   ELSE after = before]_vars

\* the eligible pairs of the argument list, and those quoted in a stablecoin
EligiblePairs ==
    {k \in 1..Len(selection.pairs) : Eligible(selection.pairs[k], selection.baseTokenAddress)}
StablecoinPairs == {k \in EligiblePairs : QuotedInStablecoin(selection.pairs[k])}

\* C16: when some eligible pair is quoted in USDC, USDT or DAI, whatever the
\* case of the symbol, the selected price is the price of an eligible
\* stablecoin-quoted pair, for every list of pairs in every order.
StablecoinQuotePreferred ==
    (selection.done /\ StablecoinPairs # {})
    => \E k \in StablecoinPairs : selection.priceUsd = selection.pairs[k].PriceUsd

StablecoinQuotePreferredReached ==
    /\ selection.done
    /\ \E k \in StablecoinPairs, j \in EligiblePairs \ StablecoinPairs :
          /\ j < k
          /\ selection.pairs[j].Liquidity # NoLiquidity
          /\ selection.pairs[k].Liquidity # NoLiquidity
          /\ selection.pairs[j].Liquidity.Usd > selection.pairs[k].Liquidity.Usd
          /\ selection.pairs[j].PriceUsd # selection.pairs[k].PriceUsd
          /\ selection.priceUsd = selection.pairs[k].PriceUsd

\* the liquidity figure of a pair, below every figure when it carries none
LiquidityOf(pair) == IF pair.Liquidity = NoLiquidity THEN Nil ELSE pair.Liquidity.Usd

\* the class the selection ends in
FinalClass == IF StablecoinPairs # {} THEN StablecoinPairs ELSE EligiblePairs

\* C17: the selected price is the price of a pair of the final class whose
\* liquidity is the highest of that class, a pair without a figure ranking
\* below every pair with one, for every list of pairs in every order.
HighestLiquiditySelected ==
    (selection.done /\ FinalClass # {})
    => \E k \in FinalClass :
          /\ selection.priceUsd = selection.pairs[k].PriceUsd
          /\ \A j \in FinalClass :
                LiquidityOf(selection.pairs[j]) <= LiquidityOf(selection.pairs[k])

\* C18: every price in the cache is strictly positive, whatever price
\* strings the feed returned.
CachedPricesPositive ==
    \A c \in DOMAIN cachedPrices :
        \A a \in DOMAIN cachedPrices[c] : cachedPrices[c][a] > 0

\* C19: a key written by a refresh is found with the written price while
\* its age is within the lifetime and is not found once the lifetime has
\* elapsed without a new write; an unknown chain and a token that was never
\* priced are not found.
LookupHonoursTTL ==
    /\ \A key \in DOMAIN lastWrite :
          LET looked == GetPriceUSD(cachedPrices, key[1], key[2])
          IN IF lastWrite[key].age <= TTLTicks
             THEN looked.found /\ looked.price = lastWrite[key].price
             ELSE ~looked.found
    /\ \A a \in {"0xC02a", "0xbb4C"} :
          /\ ~GetPriceUSD(cachedPrices, "polygon", a).found
          /\ \A c \in {"ethereum", "base"} :
                <<c, ToLower(a)>> \notin DOMAIN lastWrite
                => ~GetPriceUSD(cachedPrices, c, a).found

\* C20: a batch task whose feed call fails writes no price and ends; the
\* feed is called at most once per batch in a run; the run returns only when
\* every batch has had its call, and returns no error.
FailedBatchIsSkipped ==
    [][/\ \A b \in 1..Len(batches[1]) :
             BatchFeedFails(1, b)
             => /\ cachedPrices' = cachedPrices
                /\ lastWrite' = lastWrite
                /\ bpc'[1][b] # "running"
       /\ \A b \in 1..Len(feedCalls'[1]) : feedCalls'[1][b] <= 1
       /\ RefreshReturns(1)
          => /\ refresh'[1].ret = "nil"
             /\ \A b \in 1..Len(batches[1]) :
                   feedCalls[1][b] = 1 /\ feedResp[1][b].kind # "none"]_vars

FailedBatchIsSkippedReached ==
    /\ refresh[1].pc = "idle"
    /\ refresh[1].ret = "nil"
    /\ \E b, c \in 1..Len(batches[1]) :
          /\ feedResp[1][b].kind = "error"
          /\ feedCalls[1][b] = 1
          /\ \A k \in 1..Len(batches[1][b].tokens) :
                ~GetPriceUSD(cachedPrices, batches[1][b].dexscreenerID,
                             batches[1][b].tokens[k].Address).found
          /\ feedResp[1][c].kind = "pairs"
          /\ \E k \in 1..Len(batches[1][c].tokens) :
                GetPriceUSD(cachedPrices, batches[1][c].dexscreenerID,
                            batches[1][c].tokens[k].Address).found

\* ---------------------------------------------------------------------------
\* The symbol-keyed slot of native prices

\* C25: the slot holds strictly positive prices only: a set with a price
\* <= 0 leaves it as it was, a set with a positive price puts that price
\* under the symbol in place of the previous one and touches no other
\* symbol, and a second set with the same arguments changes nothing.
GlobalSlotKeepsPositivePrices ==
    [][\A symbol \in SlotSymbols, price \in SlotPrices :
          SetGlobalNativePrice(symbol, price)
          => /\ price <= 0 => globalNativePrices' = globalNativePrices
             /\ price > 0
                => /\ DOMAIN globalNativePrices' = DOMAIN globalNativePrices \cup {symbol}
                   /\ globalNativePrices'[symbol] = price
                   /\ \A other \in DOMAIN globalNativePrices \ {symbol} :
                         globalNativePrices'[other] = globalNativePrices[other]
             /\ TrySetGlobalNativeTokenPrice(globalNativePrices', symbol, price)
                  = globalNativePrices'
             /\ \A k \in DOMAIN globalNativePrices' : globalNativePrices'[k] > 0]_vars

GlobalSlotKeepsPositivePricesReached ==
    /\ DOMAIN globalNativePrices = SlotSymbols
    /\ globalNativePrices["eth"] = 400
    /\ globalNativePrices["bnb"] = 250

\* ---------------------------------------------------------------------------
\* The request list of a (wallet, network) pair

\* the tokens the token provider lists under the network's chain id
ListedTokens(n) ==
    Range(GetTokensByNetwork(activeNetworkDefinitions)[
              FormatUint(activeNetworkDefinitions[n].ChainID)])

\* the requests of the list that ask for the token
TokenRequests(requests, token) ==
    {k \in 1..Len(requests) :
        requests[k].Type = "token" /\ requests[k].TokenAddress = token.Address}

\* the task has built its request list
HasRequests(t) == t[2] \in ActiveIdx /\ tpc[t] \in {"calling", "done"} /\ gatewayCalls[t] > 0

\* C29: the request list of a pair holds exactly one native request and, for
\* every token listed under the network, one request when the token's chain
\* id is the network's and none otherwise; the gateway's results answer
\* exactly these requests, and a token of another chain appears neither in
\* the network's entry nor in the wallet's errors.
RequestsAreNativePlusOwnTokens ==
    \A t \in Tasks :
        HasRequests(t)
        => LET nd == activeNetworkDefinitions[t[2]]
               requests == RequestsOf(t[1], t[2])
               own == {token \in ListedTokens(t[2]) : token.ChainID = nd.ChainID}
               foreign == ListedTokens(t[2]) \ own
           IN /\ Cardinality({k \in 1..Len(requests) : requests[k].Type = "native"}) = 1
              /\ \A token \in own : Cardinality(TokenRequests(requests, token)) = 1
              /\ \A token \in foreign : TokenRequests(requests, token) = {}
              /\ Len(requests) = 1 + Cardinality(own)
              /\ (resp[t].kind = "returned" /\ ~resp[t].err)
                 => /\ Len(resp[t].results) = Len(requests)
                    /\ \A k \in 1..Len(requests) :
                          resp[t].results[k].TokenAddress = requests[k].TokenAddress
              /\ \A token \in foreign :
                    /\ nd.Name \in DOMAIN portfolio[t[1]].BalancesByNetwork
                       => \A d \in Range(portfolio[t[1]].BalancesByNetwork[nd.Name].Tokens) :
                             d.TokenAddress # token.Address
                    /\ \A e \in Range(singleWalletErrs[t[1]]) :
                          e.TokenAddress # token.Address

RequestsAreNativePlusOwnTokensReached ==
    \E t \in Tasks :
        /\ HasRequests(t)
        /\ resp[t].kind = "returned"
        /\ ~resp[t].err
        /\ Len(resp[t].results) = 2
        /\ \E token \in ListedTokens(t[2]) :
              token.ChainID # activeNetworkDefinitions[t[2]].ChainID
        /\ activeNetworkDefinitions[t[2]].Name \in DOMAIN portfolio[t[1]].BalancesByNetwork

\* ---------------------------------------------------------------------------
\* Price misses

\* no price can be found for the line d of network nd: the token is not in
\* the cache of the network's feed chain, or for the native coin the
\* symbol-keyed slot is empty and the wrapped token is not configured or not
\* cached, or the network has no feed chain id
PriceMiss(d, nd) ==
    LET uncached(address) ==
            \/ nd.DEXScreenerChainID = ""
            \/ nd.DEXScreenerChainID \notin DOMAIN cachedPrices
            \/ ToLower(address) \notin DOMAIN cachedPrices[nd.DEXScreenerChainID]
    IN IF d.TokenAddress = ""
       THEN /\ ToLower(nd.NativeSymbol) \notin DOMAIN globalNativePrices
            /\ (nd.WrappedNativeTokenAddress = "" \/ uncached(nd.WrappedNativeTokenAddress))
       ELSE uncached(d.TokenAddress)

\* the messages of the errors the gateway and the client provider cause
GatewayMessages == {"Failed to get client", "batch balance fetch failed", "rpc error"}

\* a balance line as fetchBalancesForNetwork returns it
BalanceLine(address, symbol, amount) ==
    [WalletAddress |-> "0xW1", NetworkName |-> "", ChainID |-> "",
     TokenAddress |-> address, TokenSymbol |-> symbol, Decimals |-> 1,
     IsNative |-> (address = ""), Amount |-> amount,
     FormattedBalance |-> FormatBigInt(amount, 1).str]

\* networks without a wrapped native token and without a feed chain id
UnpricedNetworks ==
    {[Ethereum EXCEPT !.WrappedNativeTokenAddress = ""],
     [Ethereum EXCEPT !.DEXScreenerChainID = ""],
     [Base EXCEPT !.DEXScreenerChainID = ""]}

\* C30: a line without a price is returned with price 0 and value 0; the
\* pricing adds no error, so every error of a wallet comes from the gateway
\* or the client provider, and a wallet whose gateway returns were all clean
\* is not marked failed. A network without a wrapped native token or
\* without a feed chain id prices its lines at 0 in the same way.
PriceMissIsNotAnError ==
    /\ \A i \in WalletIdx, n \in ActiveIdx :
          LET nd == activeNetworkDefinitions[n]
          IN nd.Name \in DOMAIN portfolio[i].BalancesByNetwork
             => \A d \in Range(portfolio[i].BalancesByNetwork[nd.Name].Tokens) :
                   PriceMiss(d, nd) => d.PriceUSD = 0 /\ d.ValueUSD = 0
    /\ \A i \in WalletIdx :
          /\ \A e \in Range(singleWalletErrs[i]) : e.Message \in GatewayMessages
          /\ wpc[i] = "mark" => ~WalletClean(i)
    /\ \A nd \in UnpricedNetworks :
          \A nb \in {BalanceLine("", "ETH", 3), BalanceLine("0xC02a", "WETH", 5)} :
              LET priced == PriceBalances(<<nb>>, nd, cachedPrices, << >>)
              IN PriceMiss(nb, nd)
                 => /\ priced.details[1].PriceUSD = 0
                    /\ priced.details[1].ValueUSD = 0
                    /\ priced.total = 0

PriceMissIsNotAnErrorReached ==
    /\ phase = "idle"
    /\ ret.kind = "all"
    /\ \E i \in WalletIdx, n \in ActiveIdx :
          LET nd == activeNetworkDefinitions[n]
          IN /\ WalletClean(i)
             /\ nd.Name \in DOMAIN portfolio[i].BalancesByNetwork
             /\ \E d \in Range(portfolio[i].BalancesByNetwork[nd.Name].Tokens) :
                   PriceMiss(d, nd) /\ d.TokenAddress # "" /\ d.ValueUSD = 0
             /\ singleWalletErrs[i] = <<>>
             /\ AddressOf(i) \notin failedWallets
             /\ \E k \in 1..Len(ret.portfolios) : ret.portfolios[k] = portfolio[i]

\* ---------------------------------------------------------------------------
\* Empty catalog

\* C28: with an empty network catalog a call for all wallets and a call for
\* a known wallet both return an empty result and no error, and no gateway
\* call is made.
EmptyCatalogGivesEmptyResult ==
    [][/\ \A names \in SelectorLists :
            FetchAllWalletsPortfolio(names, "no_networks")
            => /\ ret'.portfolios = <<>> /\ ret'.errors = <<>> /\ ret'.err = NoError
               /\ phase' = "idle" /\ gatewayCalls' = gatewayCalls
       /\ \A a \in AddressInputs, names \in SelectorLists :
            /\ FetchSingleWalletPortfolioByAddress(a, names, "no_networks")
            /\ GetWalletByAddress(a) # 0
            => /\ ret'.portfolios = <<>> /\ ret'.errors = <<>> /\ ret'.err = NoError
               /\ phase' = "idle" /\ gatewayCalls' = gatewayCalls]_vars

\* ---------------------------------------------------------------------------
\* Wallet-level concurrency

\* the wallet goroutines that have started a network sub-task and have not
\* finished
WalletsProcessing ==
    {i \in WalletIdx : wpc[i] \notin {"idle", "done"} /\ wNext[i] > 1}

\* C26: during a call for all wallets no more wallet tasks are processing at
\* once than the configured concurrency limit.
WalletsWithinOuterLimit ==
    phase = "all" => Cardinality(WalletsProcessing) <= maxConcurrentRoutines

\* ---------------------------------------------------------------------------
\* Cancellation while waiting for a permit

\* C27: once the context is cancelled a sub-task that still waits for its
\* permit is not started and makes no gateway call; its wait ends with an
\* error of that sub-task in the wallet's error list.
CancelledWaitAborts ==
    [][\A i \in WalletIdx :
          (ctxDone /\ SpawnNetworkTask(i))
          => /\ tpc'[<<i, wNext[i]>>] = "done"
             /\ gatewayCalls'[<<i, wNext[i]>>] = 0
             /\ Len(singleWalletErrs'[i]) = Len(singleWalletErrs[i]) + 1]_vars

\* ---------------------------------------------------------------------------
\* Concurrent and repeated refreshes

\* what a caller of GetPriceUSD may ask for
LookupChains == {"ethereum", "base", "polygon"}
LookupAddresses == {"0xC02a", "0xc02a", "0xbb4C", "0xdead"}

\* batch task b of run r has stored `price` under the key <<chain, address>>
Wrote(r, b, key, price) ==
    /\ feedResp[r][b].kind = "pairs"
    /\ batches[r][b].dexscreenerID = key[1]
    /\ \E k \in 1..Len(batches[r][b].tokens) :
          LET tokenInfo == batches[r][b].tokens[k]
              hit == FirstUsablePair(feedResp[r][b].pairs, tokenInfo, 1)
          IN /\ ToLower(tokenInfo.Address) = key[2]
             /\ hit # 0
             /\ ParseFloat(feedResp[r][b].pairs[hit].PriceUsd).val = price

\* no batch task of any run has a write of the cache ahead of it
NoWritePending ==
    \A r \in Runs :
        \/ refresh[r].pc = "idle"
        \/ /\ refresh[r].next > Len(batches[r])
           /\ \A b \in 1..Len(batches[r]) : bpc[r][b] \in {"counting", "done"}

\* C21: while refreshes run at the same time, a lookup finds nothing or
\* finds a price that a batch task of some run stored under exactly that
\* key; once no run has a write left to make, in particular once all have
\* returned, every key that was written holds the price of its last write.
LastWriterWins ==
    /\ \A chain \in LookupChains, address \in LookupAddresses :
          LET looked == GetPriceUSD(cachedPrices, chain, address)
          IN looked.found
             => \E r \in Runs : \E b \in 1..Len(batches[r]) :
                    Wrote(r, b, <<chain, ToLower(address)>>, looked.price)
    /\ NoWritePending
       => \A key \in DOMAIN lastWrite :
             LET looked == GetPriceUSD(cachedPrices, key[1], key[2])
             IN looked.found /\ looked.price = lastWrite[key].price

LastWriterWinsReached ==
    /\ NoWritePending
    /\ \A r \in {1, 2} : refresh[r].pc = "launch"
    /\ \E b \in 1..Len(batches[1]), c \in 1..Len(batches[2]) :
          \E key \in DOMAIN lastWrite :
             /\ Wrote(1, b, key, 400)
             /\ Wrote(2, c, key, 250)
             /\ GetPriceUSD(cachedPrices, key[1], key[2]).found
             /\ GetPriceUSD(cachedPrices, key[1], key[2]).price = 400

\* the batch tasks of run r that are at the update of the run's counters
\* and of its set of priced chains
Counting(r) == {b \in 1..Len(bpc[r]) : bpc[r][b] = "counting"}

\* C22: the counters and the set of priced chains of a run are accessed by
\* one batch task at a time.
BookkeepingIsExclusive == \A r \in Runs : Cardinality(Counting(r)) <= 1

\* the cache one run leaves that starts on an empty cache and gets the
\* answers of run r, its batch tasks taken in launch order
RECURSIVE CacheAfter(_, _, _, _)
CacheAfter(cp, bs, answers, b) ==
    IF b > Len(bs) THEN cp
    ELSE CacheAfter(IF answers[b].kind = "pairs"
                    THEN StoreBatch(cp, bs[b].dexscreenerID, bs[b].tokens, answers[b].pairs)
                    ELSE cp,
                    bs, answers, b + 1)
RunOnce(r) ==
    IF refresh[r].ret # "nil" THEN << >>
    ELSE CacheAfter(InitChainMaps(<< >>), batches[r], feedResp[r], 1)

\* run r got from the token provider and from the feed what run 1 got
SameAnswers(r) == refresh[r].ret = refresh[1].ret /\ feedResp[r] = feedResp[1]

\* C23: a refresh that starts when the one before has returned and gets the
\* same catalog and the same feed answers leaves the cache with the entries
\* the first one left: after the first run, and after every further run
\* with the answers of the first, the cache is the cache of one run.
RefreshTwiceAsOnce ==
    \A n \in Runs :
        (/\ \A r \in 1..n : RunReturned(r) /\ SameAnswers(r)
         /\ \A r \in Runs \ (1..n) : refresh[r].count = 0)
        => cachedPrices = RunOnce(1)

RefreshTwiceAsOnceReached ==
    /\ RunReturned(1) /\ RunReturned(2) /\ SameAnswers(2)
    /\ refresh[1].ret = "nil"
    /\ \E b, c \in 1..Len(batches[1]) :
          /\ feedResp[1][b].kind = "error"
          /\ GetPriceUSD(cachedPrices, batches[1][c].dexscreenerID,
                         batches[1][c].tokens[1].Address).found
          /\ GetPriceUSD(cachedPrices, batches[1][c].dexscreenerID,
                         batches[1][c].tokens[1].Address).price = 250

\* the feed calls of run r that are in flight
InFlight(r) == {b \in 1..Len(bpc[r]) : bpc[r][b] = "running"}

\* C24: a run has at most as many feed calls in flight as the configured
\* limit, and at most 5 when the configured value is 0 or negative.
FeedCallsWithinLimit ==
    /\ \A r \in Runs :
          Cardinality(InFlight(r))
             <= IF refresh[r].configured > 0 THEN refresh[r].configured ELSE 5
    /\ \A m \in (0 - 2)..0 : ConcurrencyLimit(m) = 5

FeedCallsWithinLimitReached ==
    /\ refresh[1].pc = "launch"
    /\ refresh[1].configured = 1
    /\ Len(batches[1]) > 1
    /\ refresh[1].next = 2
    /\ InFlight(1) = {1}

\* ---------------------------------------------------------------------------
\* Pricing of native coins and tokens

\* the price found in cache cp for an address on a feed chain, 0 when the
\* chain or the address has no entry or the entry is not positive
CachedOrZero(cp, chain, address) ==
    IF chain # "" /\ chain \in DOMAIN cp /\ ToLower(address) \in DOMAIN cp[chain]
                  /\ cp[chain][ToLower(address)] > 0
    THEN cp[chain][ToLower(address)]
    ELSE 0

\* the native line of a list of token details, as a set
NativeLines(tokens) == {k \in 1..Len(tokens) : tokens[k].TokenAddress = ""}

\* a network with a native coin that no other network shares, and slots that
\* hold a price for it or for none
Polygon ==
    [Ethereum EXCEPT !.NativeSymbol = "MATIC", !.Name = "Polygon", !.Identifier = "polygon"]
SlotsTried == {<< >>, [matic |-> 400], [eth |-> 400]}

ItemErrorRecorded(errors, nd, rq) ==
    \E k \in 1..Len(errors) :
        /\ errors[k].NetworkName = nd.Name
        /\ errors[k].TokenAddress = rq.TokenAddress
        /\ errors[k].IsNative = (rq.Type = "native")
        /\ errors[k].TokenSymbol = rq.TokenSymbol

\* the portfolio shows the item of request rq on network nd
ItemShown(p, nd, rq) ==
    /\ nd.Name \in DOMAIN p.BalancesByNetwork
    /\ \E k \in 1..Len(p.BalancesByNetwork[nd.Name].Tokens) :
          p.BalancesByNetwork[nd.Name].Tokens[k].TokenAddress = rq.TokenAddress

UnparsedWinnerWritesNothing ==
    [][\A b \in 1..Len(batches[1]) :
          BatchStoresPrices(1, b, feedResp'[1][b].pairs)
          => \A k \in 1..Len(batches[1][b].tokens) :
                LET tokenInfo == batches[1][b].tokens[k]
                    picked == selectBestPriceFromPairs(feedResp'[1][b].pairs,
                                                       tokenInfo.Address)
                IN (picked # "" /\ ParseFloat(picked).err)
                   => GetPriceUSD(cachedPrices', batches[1][b].dexscreenerID,
                                  tokenInfo.Address)
                        = GetPriceUSD(cachedPrices, batches[1][b].dexscreenerID,
                                      tokenInfo.Address)]_vars

\* ---------------------------------------------------------------------------
\* The client provider

\* C34: the provider keeps one client per network: a kept client is never
\* replaced or dropped and is the one every later request gets, no network
\* ever has a second client created, and a failed creation keeps nothing, so
\* that the network is still without a client after it.
OneClientPerNetwork ==
    /\ [][/\ \A name \in DOMAIN clients :
                name \in DOMAIN clients' /\ clients'[name] = clients[name]
          /\ \A t \in Tasks :
                /\ GetClientFails(t[1], t[2])
                   => /\ clients' = clients
                      /\ activeNetworkDefinitions[t[2]].Name \notin DOMAIN clients'
                /\ CallGateway(t[1], t[2])
                   => LET nd == activeNetworkDefinitions[t[2]]
                      IN /\ GetClient(clients, nd).client = clients'[nd.Name]
                         /\ GetClient(clients', nd).client = clients'[nd.Name]]_vars
    /\ [](\A name \in DOMAIN clients : clients[name] = 1)

\* on one network a creation failed for one wallet and a client was created
\* for the other; on another network both wallets got the kept client
OneClientPerNetworkReached ==
    /\ phase = "all"
    /\ \E n1, n2 \in 1..Len(activeNetworkDefinitions) :
          /\ n1 # n2
          /\ resp[<<1, n1>>] = NoClient
          /\ gatewayCalls[<<2, n1>>] = 1
          /\ gatewayCalls[<<1, n2>>] = 1
          /\ gatewayCalls[<<2, n2>>] = 1
          /\ activeNetworkDefinitions[n1].Name \in DOMAIN clients
          /\ activeNetworkDefinitions[n2].Name \in DOMAIN clients

\* ---------------------------------------------------------------------------
\* Batching

RECURSIVE Concat(_)
Concat(ss) == IF ss = <<>> THEN <<>> ELSE Head(ss) \o Concat(Tail(ss))

\* the largest batch batchTokenInfos may make for a configured size
MaxBatchFor(batchSize) == IF batchSize <= 0 THEN 30 ELSE batchSize

FetchAllTerminates ==
    /\ [](phase # "idle" => ENABLED <<CallSteps>>_vars)
    /\ (phase = "all") ~> (phase = "idle")

\* every wallet goroutine has networks left and waits for a slot of the
\* semaphore, which is full
FetchAllTerminatesReached ==
    /\ phase = "all"
    /\ networkSemaphore = maxConcurrentRoutines
    /\ \A i \in WalletIdx : wpc[i] = "loop" /\ wNext[i] <= Len(activeNetworkDefinitions)
    /\ \E i \in WalletIdx : wNext[i] > 1

\* ---------------------------------------------------------------------------
\* The schedule of the goroutines

\* the identity order of the network tasks
InOrder == [n \in ActiveIdx |-> n]

\* the symbol-keyed slot after the network tasks k.. of wallet i have
\* finished one after the other, in the order of the networks, on the
\* recorded gateway returns
RECURSIVE SlotAfterTasks(_, _, _)
SlotAfterTasks(i, k, gp) ==
    IF k > Len(activeNetworkDefinitions) THEN gp
    ELSE LET nd == activeNetworkDefinitions[k]
             r == resp[<<i, k>>]
         IN IF r.kind = "no_client" THEN SlotAfterTasks(i, k + 1, gp)
            ELSE SlotAfterTasks(i, k + 1,
                    PriceBalances(FetchBalancesForNetwork(GetWallets[i], nd, r).balances,
                                  nd, cachedPrices, gp).gp)

\* the slot when the goroutine of wallet i starts, the wallets before it
\* having run to their end one after the other
RECURSIVE SlotBeforeWallet(_)
SlotBeforeWallet(i) ==
    IF i = 1 THEN << >> ELSE SlotAfterTasks(i - 1, 1, SlotBeforeWallet(i - 1))

\* the portfolio of wallet i when the wallets, and the networks of each,
\* are processed one after the other
SequentialPortfolio(i) ==
    LET run == RunAlone(i, InOrder, 1, [byNetwork |-> << >>, total |-> 0, errors |-> {}],
                        SlotBeforeWallet(i))
    IN [WalletAddress |-> GetWallets[i].Address,
        BalancesByNetwork |-> run.byNetwork,
        TotalValueUSD |-> run.total]

\* C37: on the same gateway returns and cached prices, the first call over
\* all wallets of a process returns for every wallet the portfolio it
\* returns when the goroutines run one after the other: the portfolio does
\* not depend on the schedule.
ScheduleIndependent ==
    [][(FetchAllReturns /\ ncalls = 1)
       => \A i \in WalletIdx :
             \E k \in 1..Len(results) : results[k] = SequentialPortfolio(i)]_vars

\* ---------------------------------------------------------------------------
\* The failed-wallet set over several calls

\* C38: no step of any call takes an address out of the failed-wallet
\* set: what GetFailedWallets returns after a step contains what it returned
\* before.
FailedWalletsOnlyGrow ==
    [][GetFailedWallets \subseteq GetFailedWallets']_vars

\* a later call has returned in which a wallet ran without an error, and
\* GetFailedWallets still returns the wallet, failed in an earlier call
FailedWalletsOnlyGrowReached ==
    /\ ncalls >= 2
    /\ phase = "idle"
    /\ \E i \in WalletIdx :
          /\ wpc[i] = "done"
          /\ singleWalletErrs[i] = <<>>
          /\ AddressOf(i) \in GetFailedWallets

\* ---------------------------------------------------------------------------
\* The symbol-keyed slot once it is set

\* C39: a price that the symbol-keyed slot holds for a symbol stays: no
\* step, of a call or of a refresh, removes it or puts another price in its
\* place.
SlotKeepsItsPrice ==
    [][\A symbol \in DOMAIN globalNativePrices :
          /\ symbol \in DOMAIN globalNativePrices'
          /\ globalNativePrices'[symbol] = globalNativePrices[symbol]]_vars

====
